---- MODULE Spec2Model ----
(***************************************************************************)
(* A model of contravis: the geometric primitives (circular_arc, linear,   *)
(* orbit), the timeline merge engine (merge_keyframe_lists), the figure    *)
(* generators, the participant resolver and the orchestrator               *)
(* (run_pipeline).                                                         *)
(*                                                                         *)
(* Numbers.  The program computes in floating point; the model computes in *)
(* fixed point, exactly wherever the values are representable:             *)
(*   - a beat is an integer number of ticks, 3 ticks = 1e-6 beat (the      *)
(*     quantum of round(beat, 6)), so 1 beat = 3000000 ticks;              *)
(*   - a position is an integer number of 1/1000 distance units;           *)
(*   - an angle is an integer number of 1/10 degree (360 deg = 3600);      *)
(*   - sines and cosines are scaled by 10000; an eased time by 20000;      *)
(*   - turns and revolutions are integers in 1/10000 of a turn.            *)
(* A quotient that is not an integer is rounded to the nearest integer.    *)
(***************************************************************************)
EXTENDS Integers, Sequences, FiniteSets, TLC

VARIABLES
    \* ---- run_pipeline (src/contravis/pipeline.py) ----
    figure_calls,        \* the invocation list handed to run_pipeline
    formation,           \* the starting formation handed to run_pipeline
    progression,         \* the expected displacement handed to run_pipeline
    state,               \* the running WorldState
    all_keyframes,       \* the master keyframe list
    all_warnings,        \* the warnings collected so far
    concurrent_results,  \* (keyframes, authoritative set) of the current group
    gi,                  \* index of the current group
    ci,                  \* index of the current call inside the group
    pi,                  \* index of the next pair of the per-pair fallback (0: none)
    pc,                  \* position of run_pipeline
    group_start,         \* history: poses of the running state when the group began
    group_calls,         \* history: the accepted generator calls of the current group
    last_call,           \* history: the last generator call (context and result)
    \* ---- a single call of a pure function ----
    arg,                 \* the arguments of the call
    res                  \* its result (<<>> before the call)

pvars == <<figure_calls, formation, progression, state, all_keyframes, all_warnings, concurrent_results,
           gi, ci, pi, pc, group_start, group_calls, last_call>>
vars == <<figure_calls, formation, progression, state, all_keyframes, all_warnings, concurrent_results,
          gi, ci, pi, pc, group_start, group_calls, last_call, arg, res>>

----------------------------------------------------------------------------
(* Arithmetic                                                              *)

Abs(a) == IF a < 0 THEN -a ELSE a

Max(a, b) == IF a >= b THEN a ELSE b

\* a / b rounded to the nearest integer (b > 0)
RDiv(a, b) == (2 * a + b) \div (2 * b)

RECURSIVE Gcd(_, _)
Gcd(a, b) == IF b = 0 THEN a ELSE Gcd(b, a % b)

\* a * p / q, rounded; the fraction is reduced first, which leaves the value
\* unchanged and keeps the product small
MulFrac(a, p, q) ==
    LET reduced(g) == RDiv(a * (p \div g), q \div g)
    IN  reduced(Gcd(Abs(p), q))

RECURSIVE SqrtIter(_, _, _)
SqrtIter(n, lo, hi) ==
    IF lo >= hi THEN lo
    ELSE IF ((lo + hi + 1) \div 2) * ((lo + hi + 1) \div 2) <= n
         THEN SqrtIter(n, (lo + hi + 1) \div 2, hi)
         ELSE SqrtIter(n, lo, ((lo + hi + 1) \div 2) - 1)

\* floor of the square root, by bisection
ISqrt(n) == SqrtIter(n, 0, 30000)

\* math.hypot, rounded to the nearest integer
hypot(dx, dy) ==
    LET nearest(n, r) == IF n - r * r > r THEN r + 1 ELSE r
    IN  nearest(dx * dx + dy * dy, ISqrt(dx * dx + dy * dy))

RECURSIVE SeqSum(_)
SeqSum(s) == IF s = <<>> THEN 0 ELSE Head(s) + SeqSum(Tail(s))

InSeq(e, s) == \E k \in 1..Len(s) : s[k] = e

RECURSIVE Flatten(_)
Flatten(ss) == IF ss = <<>> THEN <<>> ELSE Head(ss) \o Flatten(Tail(ss))

----------------------------------------------------------------------------
(* Trigonometry in tenths of a degree                                      *)

\* 10000 * sin(d degrees), d = 0..90
SinTable ==
    <<0, 175, 349, 523, 698, 872, 1045, 1219, 1392, 1564, 1736, 1908, 2079, 2250, 2419,
      2588, 2756, 2924, 3090, 3256, 3420, 3584, 3746, 3907, 4067, 4226, 4384, 4540, 4695,
      4848, 5000, 5150, 5299, 5446, 5592, 5736, 5878, 6018, 6157, 6293, 6428, 6561, 6691,
      6820, 6947, 7071, 7193, 7314, 7431, 7547, 7660, 7771, 7880, 7986, 8090, 8192, 8290,
      8387, 8480, 8572, 8660, 8746, 8829, 8910, 8988, 9063, 9135, 9205, 9272, 9336, 9397,
      9455, 9511, 9563, 9613, 9659, 9703, 9744, 9781, 9816, 9848, 9877, 9903, 9925, 9945,
      9962, 9976, 9986, 9994, 9998, 10000>>

\* 10000 * sin of a tenths of a degree, a in 0..900 (linear between whole degrees)
SinQ(a) ==
    LET between(table, d, f) ==
            IF f = 0 THEN table[d + 1]
            ELSE RDiv(table[d + 1] * (10 - f) + table[d + 2] * f, 10)
    IN  between(SinTable, a \div 10, a % 10)

\* math.sin: 10000 * sin(a) for any a in tenths of a degree
Sin(a) ==
    LET folded(m) == IF m <= 900 THEN m
                     ELSE IF m <= 1800 THEN 1800 - m
                     ELSE IF m <= 2700 THEN m - 1800
                     ELSE 3600 - m
        signed(m, s) == IF m <= 1800 THEN s ELSE -s
    IN  signed(a % 3600, SinQ(folded(a % 3600)))

\* math.cos
Cos(a) == Sin(a + 900)

\* 10000 * |(ax, ay)| * sin(c - b), where b is the angle of (ax, ay) from north
Cross(c, ax, ay) == Sin(c) * ay - Cos(c) * ax

RECURSIVE AtanIter(_, _, _, _)
\* the least c in lo..hi with Cross(c, ax, ay) >= 0
AtanIter(ax, ay, lo, hi) ==
    IF lo >= hi THEN lo
    ELSE IF Cross((lo + hi) \div 2, ax, ay) >= 0
         THEN AtanIter(ax, ay, lo, (lo + hi) \div 2)
         ELSE AtanIter(ax, ay, ((lo + hi) \div 2) + 1, hi)

\* the angle in 0..900 whose tangent is ax / ay (ax, ay >= 0, not both 0)
AtanQ(ax, ay) ==
    LET nearest(b, err) == IF b > 0 /\ err[b - 1] <= err[b] THEN b - 1 ELSE b
        near(b) == nearest(b, [c \in {b - 1, b} |-> Abs(Cross(c, ax, ay))])
    IN  IF ax = 0 THEN 0
        ELSE IF ay = 0 THEN 900
        ELSE IF ax = ay THEN 450
        ELSE near(AtanIter(ax, ay, 0, 900))

\* math.degrees(math.atan2(dx, dy)): the angle of (dx, dy) from north, clockwise,
\* in (-1800, 1800]; atan2(0, 0) = 0
atan2(dx, dy) ==
    LET quadrant(b) == IF dx >= 0 THEN (IF dy >= 0 THEN b ELSE 1800 - b)
                       ELSE (IF dy >= 0 THEN -b ELSE b - 1800)
    IN  IF dx = 0 /\ dy = 0 THEN 0 ELSE quadrant(AtanQ(Abs(dx), Abs(dy)))

----------------------------------------------------------------------------
(* Types (src/contravis/types.py)                                          *)

\* DancerID, in the order of the enum
DancerIDs == <<"up_lark", "up_robin", "down_lark", "down_robin">>

DancerID == {DancerIDs[k] : k \in 1..Len(DancerIDs)}

is_lark(d) == d \in {"up_lark", "down_lark"}

is_robin(d) == ~is_lark(d)

is_up(d) == d \in {"up_lark", "up_robin"}

is_down(d) == ~is_up(d)

partner(d) ==
    CASE d = "up_lark" -> "up_robin"
      [] d = "up_robin" -> "up_lark"
      [] d = "down_lark" -> "down_robin"
      [] d = "down_robin" -> "down_lark"

neighbor(d) ==
    CASE d = "up_lark" -> "down_robin"
      [] d = "up_robin" -> "down_lark"
      [] d = "down_lark" -> "up_robin"
      [] d = "down_robin" -> "up_lark"

\* opposite gone wrong: the diagonal once more
opposite_is_neighbor(d) == neighbor(d)

opposite(d) == partner(neighbor(d))

\* DancerState(x, y, facing); vx and vy are never written and stay 0.0
DancerState(x, y, facing) == [x |-> x, y |-> y, facing |-> facing]

HandConnection(a, ha, b, hb) == [dancer_a |-> a, hand_a |-> ha, dancer_b |-> b, hand_b |-> hb]

WorldState(beat, dancers, hands) == [beat |-> beat, dancers |-> dancers, hands |-> hands]

Keyframe(beat, dancers, hands) ==
    [beat |-> beat, dancers |-> dancers, hands |-> hands, annotation |-> ""]

FigureResult(keyframes, end_state, warnings) ==
    [keyframes |-> keyframes, end_state |-> end_state, warnings |-> warnings]

----------------------------------------------------------------------------
(* World (src/contravis/world.py)                                          *)

improper(beat) ==
    WorldState(beat,
        [d \in DancerID |->
            CASE d = "down_lark" -> DancerState(500, 500, 1800)
              [] d = "down_robin" -> DancerState(-500, 500, 1800)
              [] d = "up_robin" -> DancerState(500, -500, 0)
              [] d = "up_lark" -> DancerState(-500, -500, 0)],
        <<>>)

beckett(beat) ==
    WorldState(beat,
        [d \in DancerID |->
            CASE d = "down_lark" -> DancerState(-500, 500, 900)
              [] d = "down_robin" -> DancerState(-500, -500, 900)
              [] d = "up_robin" -> DancerState(500, 500, 2700)
              [] d = "up_lark" -> DancerState(500, -500, 2700)],
        <<>>)

Formation == {"improper", "beckett"}

make_formation(name) ==
    IF name = "improper" THEN improper(0) ELSE beckett(0)

midpoint(a, b) == <<(a.x + b.x) \div 2, (a.y + b.y) \div 2>>

normalize_facing(angle) == angle % 3600

----------------------------------------------------------------------------
(* Geometric primitives (src/contravis/interpolation.py)                   *)

\* degrees(turns * 2 * pi) = 360 * turns, for turns in 1/10000 of a turn
TurnAngle(turns) == RDiv(9 * turns, 25)

\* FigureContext.beats_per_frame = 0.25 beat
BeatsPerFrame == 750000

\* NFrames gone wrong: the quotient rounded to the nearest instead of cut off
NFramesRounded(beat_start, beat_end, beats_per_frame) ==
    Max(1, RDiv(beat_end - beat_start, beats_per_frame))

\* n_frames = max(1, int((beat_end - beat_start) / beats_per_frame))
NFrames(beat_start, beat_end, beats_per_frame) ==
    Max(1, (beat_end - beat_start) \div beats_per_frame)

\* FrameBeat gone wrong: the frames counted from 1, t = (i + 1) / n_frames
FrameBeatFromOne(i, n, beat_start, beat_end) ==
    beat_start + MulFrac(beat_end - beat_start, i + 1, n)

\* beat = beat_start + t * (beat_end - beat_start), t = i / n_frames
FrameBeat(i, n, beat_start, beat_end) ==
    beat_start + MulFrac(beat_end - beat_start, i, n)

\* _ease_in_out(i / n) = (1 - cos(pi * i / n)) / 2, scaled by 20000
ease_in_out(i, n) == 10000 - Cos(RDiv(1800 * i, n))

\* _lerp(a, b, t) with t = e / 20000
lerp(a, b, e) == a + RDiv((b - a) * e, 20000)

\* copy_dancers gone wrong: every dancer is put on the origin
copy_dancers_at_origin(st) == [did \in DOMAIN st.dancers |-> DancerState(0, 0, 0)]

\* _copy_dancers: {did: ds.copy() for did, ds in state.dancers.items()}
copy_dancers(st) == [did \in DOMAIN st.dancers |-> st.dancers[did]]

\* the offset (dx, dy) turned clockwise by the angle a.  With
\* angle0 = atan2(dx, dy) and r = hypot(dx, dy) this is
\* (r * sin(angle0 + a), r * cos(angle0 + a)), by the addition theorems.
Rotate(dx, dy, a) ==
    LET turned(s, c) == <<RDiv(dx * c + dy * s, 10000), RDiv(dy * c - dx * s, 10000)>>
    IN  turned(Sin(a), Cos(a))

circular_arc(st, participants, center, total_angle, beat_start, beat_end, beats_per_frame, hands, face_center) ==
    LET at(ds, x, y) ==
            DancerState(x, y,
                IF face_center THEN atan2(center[1] - x, center[2] - y) % 3600
                ELSE ds.facing)
        placed(ds, p) == at(ds, center[1] + p[1], center[2] + p[2])
        turned(beat, angle_offset) ==
            Keyframe(beat,
                [did \in DOMAIN st.dancers |->
                    IF InSeq(did, participants)
                    THEN placed(st.dancers[did],
                                Rotate(st.dancers[did].x - center[1],
                                       st.dancers[did].y - center[2], angle_offset))
                    ELSE copy_dancers(st)[did]],
                hands)
        frames(n_frames) ==
            [k \in 1..(n_frames + 1) |->
                turned(FrameBeat(k - 1, n_frames, beat_start, beat_end),
                       RDiv(ease_in_out(k - 1, n_frames) * total_angle, 20000))]
    IN  frames(NFrames(beat_start, beat_end, beats_per_frame))

\* facing_diff gone wrong: the plain difference, the long way round included
facing_diff_unwrapped(src_facing, target_facing) == target_facing - src_facing

\* diff = (target.facing - src.facing + 180) % 360 - 180
facing_diff(src_facing, target_facing) ==
    ((target_facing - src_facing + 1800) % 3600) - 1800

\* targets: a function from the moving dancers to their end DancerState
linear(st, targets, beat_start, beat_end, beats_per_frame, hands) ==
    LET moved(src, target, t_eased) ==
            DancerState(lerp(src.x, target.x, t_eased),
                        lerp(src.y, target.y, t_eased),
                        (src.facing
                           + RDiv(facing_diff(src.facing, target.facing) * t_eased,
                                  20000)) % 3600)
        eased(beat, t_eased) ==
            Keyframe(beat,
                [did \in DOMAIN st.dancers |->
                    IF did \in DOMAIN targets
                    THEN moved(st.dancers[did], targets[did], t_eased)
                    ELSE copy_dancers(st)[did]],
                hands)
        frames(n_frames) ==
            [k \in 1..(n_frames + 1) |->
                eased(FrameBeat(k - 1, n_frames, beat_start, beat_end),
                      ease_in_out(k - 1, n_frames))]
    IN  frames(NFrames(beat_start, beat_end, beats_per_frame))

\* OrbitRadius gone wrong: the dancers stay close to the end
OrbitRadiusStaysClosed(i, n, initial_r, closing_distance) ==
    IF 10 * i < n THEN initial_r + MulFrac(closing_distance - initial_r, 10 * i, n)
    ELSE closing_distance

\* the radius of orbit at t = i / n: closes over the first tenth, opens over the last
OrbitRadius(i, n, initial_r, closing_distance) ==
    IF 10 * i < n THEN initial_r + MulFrac(closing_distance - initial_r, 10 * i, n)
    ELSE IF 10 * i > 9 * n
         THEN closing_distance + MulFrac(initial_r - closing_distance, 10 * i - 9 * n, n)
    ELSE closing_distance

\* r * (sin(angle0 + a), cos(angle0 + a)) for angle0 = atan2(dx, dy), where
\* hypot(dx, dy) = initial_r; atan2(0, 0) = 0 points north
OrbitOffset(dx, dy, a, r, initial_r) ==
    LET degenerate == initial_r = 0 \/ (dx = 0 /\ dy = 0)
        scaled(p, q) == <<MulFrac(p[1], r, q), MulFrac(p[2], r, q)>>
    IN  scaled(Rotate(IF degenerate THEN 0 ELSE dx, IF degenerate THEN 10000 ELSE dy, a),
               IF degenerate THEN 10000 ELSE initial_r)

\* the poses orbit gives d1 and d2 on the circle of radius r after angle_offset
OrbitPoses(st, d1, d2, c, initial_r, angle_offset, r) ==
    LET at(p) == DancerState(c[1] + p[1], c[2] + p[2], atan2(-p[1], -p[2]) % 3600)
    IN  [did \in DOMAIN st.dancers |->
            IF did \in {d1, d2}
            THEN at(OrbitOffset(st.dancers[did].x - c[1], st.dancers[did].y - c[2],
                                angle_offset, r, initial_r))
            ELSE copy_dancers(st)[did]]

orbit(st, participants, total_revolutions, beat_start, beat_end, beats_per_frame, closing_distance, hands) ==
    LET frames(d1, d2, c, initial_r, n_frames) ==
            [k \in 1..(n_frames + 1) |->
                Keyframe(FrameBeat(k - 1, n_frames, beat_start, beat_end),
                    OrbitPoses(st, d1, d2, c, initial_r,
                               MulFrac(9 * total_revolutions, k - 1, 25 * n_frames),
                               OrbitRadius(k - 1, n_frames, initial_r, closing_distance)),
                    hands)]
        around(ds1, ds2) ==
            frames(participants[1], participants[2], midpoint(ds1, ds2),
                   RDiv(hypot(ds1.x - ds2.x, ds1.y - ds2.y), 2),
                   NFrames(beat_start, beat_end, beats_per_frame))
    IN  around(st.dancers[participants[1]], st.dancers[participants[2]])

----------------------------------------------------------------------------
(* Timeline merge engine (src/contravis/interpolation.py)                  *)

\* round(beat, 6): to the nearest multiple of 3 ticks
Round6(beat) == 3 * ((beat + 1) \div 3)

\* sorted(S) for a finite set of integers
RECURSIVE SortedSet(_)
SortedSet(S) ==
    LET least_first(m) == <<m>> \o SortedSet(S \ {m})
    IN  IF S = {} THEN <<>> ELSE least_first(CHOOSE a \in S : \A b \in S : a <= b)

\* build_index(kf_list).get(beat_r): of the frames with that rounded beat, the last
\* one; <<>> when there is none
IndexLookup(kf_list, beat_r) ==
    LET last_of(hits) ==
            IF hits = {} THEN <<>>
            ELSE <<kf_list[CHOOSE k \in hits : \A j \in hits : j <= k]>>
    IN  last_of({k \in 1..Len(kf_list) : Round6(kf_list[k].beat) = beat_r})

\* BinarySearch gone wrong: lo = mid + 1 in place of lo = mid
RECURSIVE BinarySearchSkewed(_, _, _, _)
BinarySearchSkewed(kf_list, beat, lo, hi) ==
    IF lo < hi - 1
    THEN IF kf_list[(lo + hi) \div 2].beat <= beat
         THEN BinarySearchSkewed(kf_list, beat, ((lo + hi) \div 2) + 1, hi)
         ELSE BinarySearchSkewed(kf_list, beat, lo, (lo + hi) \div 2)
    ELSE <<lo, hi>>

\* the loop `while lo < hi - 1` of find_frame (indices from 1)
RECURSIVE BinarySearch(_, _, _, _)
BinarySearch(kf_list, beat, lo, hi) ==
    IF lo < hi - 1
    THEN IF kf_list[(lo + hi) \div 2].beat <= beat
         THEN BinarySearch(kf_list, beat, (lo + hi) \div 2, hi)
         ELSE BinarySearch(kf_list, beat, lo, (lo + hi) \div 2)
    ELSE <<lo, hi>>

\* the frame find_frame builds from f0 and f1 at beat, t = (beat - f0.beat) / dt;
\* the facing is not wrapped
InterpolateFrame(f0, f1, beat) ==
    LET along(a, b) == a + MulFrac(b - a, beat - f0.beat, f1.beat - f0.beat)
        turn(a, b) == a + MulFrac(((b - a + 1800) % 3600) - 1800,
                                  beat - f0.beat, f1.beat - f0.beat)
    IN  Keyframe(beat,
            [did \in DOMAIN f0.dancers |->
                DancerState(along(f0.dancers[did].x, f1.dancers[did].x),
                            along(f0.dancers[did].y, f1.dancers[did].y),
                            turn(f0.dancers[did].facing, f1.dancers[did].facing))],
            f0.hands)

\* find_frame(beat, kf_list): <<>> for None, <<frame>> otherwise
find_frame(beat, kf_list) ==
    LET between(f0, f1) ==
            IF f1.beat - f0.beat <= 0 THEN f0 ELSE InterpolateFrame(f0, f1, beat)
        bracket(b) ==
            IF b[1] = b[2] THEN <<kf_list[b[1]]>>
            ELSE <<between(kf_list[b[1]], kf_list[b[2]])>>
        search(hit) ==
            IF hit # <<>> THEN hit
            ELSE IF kf_list = <<>> THEN <<>>
            ELSE bracket(BinarySearch(kf_list, beat, 1, Len(kf_list)))
    IN  search(IndexLookup(kf_list, Round6(beat)))

HandKey(h) == <<h.dancer_a, h.hand_a, h.dancer_b, h.hand_b>>

\* UniqueHands gone wrong: nothing is dropped
UniqueHandsAll(all_hands, seen_hands) == all_hands

\* the hand connections of all_hands without repeated keys, first occurrences kept
RECURSIVE UniqueHands(_, _)
UniqueHands(all_hands, seen_hands) ==
    IF all_hands = <<>> THEN <<>>
    ELSE IF HandKey(Head(all_hands)) \in seen_hands
         THEN UniqueHands(Tail(all_hands), seen_hands)
         ELSE <<Head(all_hands)>>
                \o UniqueHands(Tail(all_hands), seen_hands \cup {HandKey(Head(all_hands))})

\* Overlay gone wrong: every list overlays all its dancers, authoritative or not
RECURSIVE OverlayAll(_, _, _, _)
OverlayAll(lists, beat, k, acc) ==
    LET over(found) ==
            IF found = <<>> THEN acc
            ELSE [dancers |-> found[1].dancers,
                  all_hands |-> acc.all_hands \o found[1].hands]
    IN  IF k > Len(lists) THEN acc
        ELSE OverlayAll(lists, beat, k + 1, over(find_frame(beat, lists[k][1])))

\* the overlay loop of merge_keyframe_lists from list k on; acc holds dancers and
\* all_hands
RECURSIVE Overlay(_, _, _, _)
Overlay(lists, beat, k, acc) ==
    LET over(auth_dancers, found) ==
            IF found = <<>> THEN acc
            ELSE [dancers |->
                     [did \in DOMAIN acc.dancers
                                \cup (auth_dancers \cap DOMAIN found[1].dancers) |->
                         IF did \in auth_dancers /\ did \in DOMAIN found[1].dancers
                         THEN found[1].dancers[did]
                         ELSE acc.dancers[did]],
                  all_hands |-> acc.all_hands \o found[1].hands]
    IN  IF k > Len(lists) THEN acc
        ELSE Overlay(lists, beat, k + 1,
                     over(lists[k][2], find_frame(beat, lists[k][1])))

\* the merged frame at beat: <<>> when the first list gives no frame
MergedFrame(lists, beat) ==
    LET merged(acc) == Keyframe(beat, acc.dancers, UniqueHands(acc.all_hands, {}))
        from(base) ==
            IF base = <<>> THEN <<>>
            ELSE <<merged(Overlay(lists, beat, 1,
                       [dancers |-> base[1].dancers, all_hands |-> base[1].hands]))>>
    IN  from(find_frame(beat, lists[1][1]))

\* the resampling path of merge_keyframe_lists: one merged frame per distinct
\* rounded beat of the lists, in increasing order
MergedFrames(lists) ==
    LET frames(sorted_beats) ==
            Flatten([k \in 1..Len(sorted_beats) |-> MergedFrame(lists, sorted_beats[k])])
    IN  frames(SortedSet(UNION {{Round6(lists[k][1][j].beat) :
                                    j \in 1..Len(lists[k][1])} :
                                 k \in 1..Len(lists)}))

\* merge_keyframe_lists gone wrong: a single list is resampled like several
merge_always_resamples(lists) ==
    IF lists = <<>> THEN <<>> ELSE MergedFrames(lists)

\* lists: a sequence of <<keyframes, authoritative set>>
merge_keyframe_lists(lists) ==
    IF lists = <<>> THEN <<>>
    ELSE IF Len(lists) = 1 THEN lists[1][1]
    ELSE MergedFrames(lists)
----------------------------------------------------------------------------
(* Figures (src/contravis/figures, src/old/contravis/figures)              *)
(*                                                                         *)
(* A FigureCall is [name, beat_start, beat_end, participants, params]; an  *)
(* optional parameter is <<>> when absent and <<value>> when given.  A     *)
(* warning is the sequence of the words of its text.                       *)

NoParams ==
    [turns |-> <<>>, target_facing |-> <<>>, end_center |-> <<>>,
     revolutions |-> <<>>, step_distance |-> <<>>]

FigureCall(name, beat_start, beat_end, participants, params) ==
    [name |-> name, beat_start |-> beat_start, beat_end |-> beat_end,
     participants |-> participants, params |-> params]

FigureContext(call, start_state, participants) ==
    [call |-> call, start_state |-> start_state, participants |-> participants]

\* ctx.params.get(key, default)
ParamGet(opt, default) == IF opt = <<>> THEN default ELSE opt[1]

\* str(n) of a count
NumStr(n) ==
    IF n \in 0..9 THEN <<"0", "1", "2", "3", "4", "5", "6", "7", "8", "9">>[n + 1]
    ELSE "many"

\* state.copy() with beat = beat_end
EndState(st, beat_end) == WorldState(beat_end, st.dancers, st.hands)

\* end_state.dancers[did] = keyframes[-1].dancers[did] for did in dids
EndFromLast(st, beat_end, keyframes, dids) ==
    WorldState(beat_end,
        [did \in DOMAIN st.dancers |->
            IF keyframes # <<>> /\ InSeq(did, dids)
            THEN keyframes[Len(keyframes)].dancers[did]
            ELSE st.dancers[did]],
        st.hands)

\* end_state.dancers[d] = targets[d] for the dancers of targets
EndFromTargets(st, beat_end, targets) ==
    WorldState(beat_end,
        [did \in DOMAIN st.dancers |->
            IF did \in DOMAIN targets THEN targets[did] ELSE st.dancers[did]],
        st.hands)

Rejected(st, words) == FigureResult(<<>>, st, <<words>>)

\* the result of a generator that moves dids along keyframes and ends where they end
ArcResult(st, beat_end, keyframes, dids) ==
    FigureResult(keyframes, EndFromLast(st, beat_end, keyframes, dids), <<>>)

\* the result of a generator that moves the dancers of targets to their targets
TargetResult(st, beat_end, keyframes, targets) ==
    FigureResult(keyframes, EndFromTargets(st, beat_end, targets), <<>>)

\* (sum(xs) / len(xs), sum(ys) / len(ys)) over the participants
Centroid(st, participants) ==
    <<RDiv(SeqSum([k \in 1..Len(participants) |-> st.dancers[participants[k]].x]),
           Len(participants)),
      RDiv(SeqSum([k \in 1..Len(participants) |-> st.dancers[participants[k]].y]),
           Len(participants))>>

\* ---- swing (src/contravis/figures/builtin/swing.py) ----

\* _orbit_end_positions: where the orbit puts d1 and d2 at t = 1
orbit_end_positions(d1, d2, st, revolutions, closing_distance) ==
    LET ends(c, initial_r) ==
            [k \in 1..2 |->
                LET did == <<d1, d2>>[k]
                    at(p) == <<c[1] + p[1], c[2] + p[2]>>
                IN  at(OrbitOffset(st.dancers[did].x - c[1], st.dancers[did].y - c[2],
                                   TurnAngle(revolutions), initial_r, initial_r))]
        around(ds1, ds2) ==
            ends(midpoint(ds1, ds2), RDiv(hypot(ds1.x - ds2.x, ds1.y - ds2.y), 2))
    IN  around(st.dancers[d1], st.dancers[d2])

\* _end_state_error: orbit_ends and desired are <<position of d1, position of d2>>
end_state_error(orbit_ends, desired) ==
    (orbit_ends[1][1] - desired[1][1]) * (orbit_ends[1][1] - desired[1][1])
  + (orbit_ends[1][2] - desired[1][2]) * (orbit_ends[1][2] - desired[1][2])
  + (orbit_ends[2][1] - desired[2][1]) * (orbit_ends[2][1] - desired[2][1])
  + (orbit_ends[2][2] - desired[2][2]) * (orbit_ends[2][2] - desired[2][2])

\* SearchRevolutions gone wrong: the candidates below 0.5 are not skipped
SearchRevolutionsUnfiltered(naive, d1, d2, st, desired) ==
    LET first_least(offsets, err) ==
            naive + 100 * (CHOOSE o \in offsets :
                               \A p \in offsets :
                                   err[o] < err[p] \/ (err[o] = err[p] /\ o <= p))
    IN  first_least(-50..50,
                    [o \in -50..50 |->
                        end_state_error(
                            orbit_end_positions(d1, d2, st, naive + 100 * o, 150),
                            desired)])

\* the search loop of swing: the candidates naive + offset_cent / 100 that are at
\* least 0.5, in increasing order; the first one of the least error is kept, and
\* naive itself when there is no candidate
SearchRevolutions(naive, d1, d2, st, desired) ==
    LET first_least(offsets, err) ==
            IF offsets = {} THEN naive
            ELSE naive + 100 * (CHOOSE o \in offsets :
                                    \A p \in offsets :
                                        err[o] < err[p] \/ (err[o] = err[p] /\ o <= p))
    IN  first_least({o \in -50..50 : naive + 100 * o >= 5000},
                    [o \in {o \in -50..50 : naive + 100 * o >= 5000} |->
                        end_state_error(
                            orbit_end_positions(d1, d2, st, naive + 100 * o, 150),
                            desired)])

\* desired = {lark: ..., robin: ...}, listed for participants[0] and participants[1]
swing_desired(ctx) ==
    LET end_center == ctx.call.params.end_center[1]
        \* perp * sep, sep = 0.5
        apart(d1_is_lark, px, py) ==
            IF d1_is_lark
            THEN <<<<end_center[1] + px, end_center[2] + py>>,
                   <<end_center[1] - px, end_center[2] - py>>>>
            ELSE <<<<end_center[1] - px, end_center[2] - py>>,
                   <<end_center[1] + px, end_center[2] + py>>>>
    IN  apart(is_lark(ctx.participants[1]),
              RDiv(-Cos(ctx.call.params.target_facing[1]) * 500, 10000),
              RDiv(Sin(ctx.call.params.target_facing[1]) * 500, 10000))

\* the local variable revolutions of swing: the supplied count, or the one found
\* by the search around naive = duration / 4.0
swing_revolutions(ctx, desired) ==
    IF ctx.call.params.revolutions # <<>>
    THEN ctx.call.params.revolutions[1]
    ELSE SearchRevolutions(RDiv(ctx.call.beat_end - ctx.call.beat_start, 1200),
                           ctx.participants[1], ctx.participants[2], ctx.start_state,
                           desired)

\* adjust_last_keyframe gone wrong: the last keyframe is left as orbit made it
last_keyframe_as_orbited(keyframes, dancers, dids) == keyframes

\* if keyframes: last.dancers[did] = end_state.dancers[did].copy() for the two
adjust_last_keyframe(keyframes, dancers, dids) ==
    [keyframes EXCEPT ![Len(keyframes)].dancers =
        [did \in DOMAIN @ |-> IF did \in dids THEN dancers[did] ELSE @[did]]]

swing(ctx) ==
    LET st == ctx.start_state
        d1 == ctx.participants[1]
        d2 == ctx.participants[2]
        target_facing == ctx.call.params.target_facing[1]
        \* end_state.dancers[robin] is written after end_state.dancers[lark]
        snapped(desired) ==
            [did \in DOMAIN st.dancers |->
                IF did = (IF is_lark(d1) THEN d2 ELSE d1)
                THEN DancerState(desired[IF is_lark(d1) THEN 2 ELSE 1][1],
                                 desired[IF is_lark(d1) THEN 2 ELSE 1][2], target_facing)
                ELSE IF did = (IF is_lark(d1) THEN d1 ELSE d2)
                THEN DancerState(desired[IF is_lark(d1) THEN 1 ELSE 2][1],
                                 desired[IF is_lark(d1) THEN 1 ELSE 2][2], target_facing)
                ELSE st.dancers[did]]
        corrected(keyframes, dancers) ==
            FigureResult(adjust_last_keyframe(keyframes, dancers, {d1, d2}),
                         WorldState(ctx.call.beat_end, dancers, st.hands), <<>>)
        swung(desired) ==
            corrected(
                orbit(st, <<d1, d2>>, swing_revolutions(ctx, desired),
                      ctx.call.beat_start, ctx.call.beat_end, BeatsPerFrame, 150,
                      <<HandConnection(IF is_lark(d1) THEN d1 ELSE d2, "right",
                                       IF is_lark(d1) THEN d2 ELSE d1, "left")>>),
                snapped(desired))
    IN  IF Len(ctx.participants) # 2
        THEN Rejected(st, <<"Swing", "needs", "exactly", "2", "participants,", "got",
                            NumStr(Len(ctx.participants))>>)
        ELSE IF ctx.call.params.target_facing = <<>> \/ ctx.call.params.end_center = <<>>
        THEN Rejected(st, <<"Swing", "requires", "'target_facing'", "and", "'end_center'",
                            "params.">>)
        ELSE swung(swing_desired(ctx))
\* ---- balance (src/contravis/figures/builtin/balance.py) ----

DistSq(a, b) == (a.x - b.x) * (a.x - b.x) + (a.y - b.y) * (a.y - b.y)

\* the closest participant to d1 that is not d1 and not used: <<>> or <<d2>>.
\* hypot is monotone in the squared distance, which is compared here.
RECURSIVE ClosestOther(_, _, _, _, _, _)
ClosestOther(st, participants, d1, used, k, best) ==
    IF k > Len(participants) THEN best
    ELSE IF participants[k] = d1 \/ participants[k] \in used
    THEN ClosestOther(st, participants, d1, used, k + 1, best)
    ELSE IF best = <<>>
            \/ DistSq(st.dancers[d1], st.dancers[participants[k]])
                 < DistSq(st.dancers[d1], st.dancers[best[1]])
    THEN ClosestOther(st, participants, d1, used, k + 1, <<participants[k]>>)
    ELSE ClosestOther(st, participants, d1, used, k + 1, best)

\* the pairing loop of balance from participant i on
RECURSIVE BalancePairs(_, _, _, _)
BalancePairs(st, participants, i, used) ==
    LET paired(d1, best) ==
            IF d1 \in used \/ best = <<>>
            THEN BalancePairs(st, participants, i + 1, used)
            ELSE <<<<d1, best[1]>>>>
                   \o BalancePairs(st, participants, i + 1, used \cup {d1, best[1]})
    IN  IF i > Len(participants) THEN <<>>
        ELSE paired(participants[i],
                    ClosestOther(st, participants, participants[i], used, 1, <<>>))

balance(ctx) ==
    LET st == ctx.start_state
        mid_beat == (ctx.call.beat_start + ctx.call.beat_end) \div 2
        step_distance == ParamGet(ctx.call.params.step_distance, 300)
        \* ds1 moved by step_distance along the unit vector towards ds2
        stepped(ds1, ds2, dist) ==
            IF dist > 0
            THEN DancerState(ds1.x + MulFrac(step_distance, ds2.x - ds1.x, dist),
                             ds1.y + MulFrac(step_distance, ds2.y - ds1.y, dist),
                             ds1.facing)
            ELSE DancerState(ds1.x, ds1.y, ds1.facing)
        toward(ds1, ds2) == stepped(ds1, ds2, hypot(ds2.x - ds1.x, ds2.y - ds1.y))
        other(pairs, did) ==
            LET k == CHOOSE j \in 1..Len(pairs) : did \in {pairs[j][1], pairs[j][2]}
            IN  IF pairs[k][1] = did THEN pairs[k][2] ELSE pairs[k][1]
        \* phase 2: back from the last keyframe of phase 1; kf1 + kf2[1:]
        back(kf1, paired) ==
            FigureResult(
                kf1 \o Tail(linear(WorldState(mid_beat, kf1[Len(kf1)].dancers, st.hands),
                                   [did \in paired |-> st.dancers[did]],
                                   mid_beat, ctx.call.beat_end, BeatsPerFrame, <<>>)),
                EndState(st, ctx.call.beat_end), <<>>)
        \* phase 1: step towards each other
        inward(pairs, paired) ==
            back(linear(st,
                        [did \in paired |->
                            toward(st.dancers[did], st.dancers[other(pairs, did)])],
                        ctx.call.beat_start, mid_beat, BeatsPerFrame, <<>>),
                 paired)
        paired_up(pairs) ==
            inward(pairs, {pairs[k][1] : k \in 1..Len(pairs)}
                            \cup {pairs[k][2] : k \in 1..Len(pairs)})
    IN  paired_up(BalancePairs(st, ctx.participants, 1, {}))

\* ---- do_si_do, box_the_gnat (src/contravis/figures/builtin) ----

do_si_do(ctx) ==
    LET st == ctx.start_state
        d1 == ctx.participants[1]
        d2 == ctx.participants[2]
    IN  IF Len(ctx.participants) # 2
        THEN Rejected(st, <<"Do", "si", "do", "needs", "2", "participants,", "got",
                            NumStr(Len(ctx.participants))>>)
        ELSE ArcResult(st, ctx.call.beat_end,
                 circular_arc(st, <<d1, d2>>, midpoint(st.dancers[d1], st.dancers[d2]),
                     TurnAngle(ParamGet(ctx.call.params.turns, 10000)),
                     ctx.call.beat_start, ctx.call.beat_end, BeatsPerFrame, <<>>, FALSE),
                 <<d1, d2>>)

box_the_gnat(ctx) ==
    LET st == ctx.start_state
        d1 == ctx.participants[1]
        d2 == ctx.participants[2]
    IN  IF Len(ctx.participants) # 2
        THEN Rejected(st, <<"Box", "the", "gnat", "needs", "2", "participants,", "got",
                            NumStr(Len(ctx.participants))>>)
        ELSE ArcResult(st, ctx.call.beat_end,
                 circular_arc(st, <<d1, d2>>, midpoint(st.dancers[d1], st.dancers[d2]),
                     1800, ctx.call.beat_start, ctx.call.beat_end, BeatsPerFrame,
                     <<HandConnection(d1, "right", d2, "right")>>, TRUE),
                 <<d1, d2>>)

\* ---- allemande, star, circle, pull_by (src/old/contravis/figures/builtin) ----

\* total_angle = turns * 360.0, negated when not clockwise
SweepAngle(turns, clockwise) ==
    IF clockwise THEN TurnAngle(turns) ELSE -TurnAngle(turns)

allemande(ctx, hand, clockwise) ==
    LET st == ctx.start_state
        d1 == ctx.participants[1]
        d2 == ctx.participants[2]
    IN  IF Len(ctx.participants) # 2
        THEN Rejected(st, <<"Allemande", "needs", "2", "participants,", "got",
                            NumStr(Len(ctx.participants))>>)
        ELSE ArcResult(st, ctx.call.beat_end,
                 circular_arc(st, <<d1, d2>>, midpoint(st.dancers[d1], st.dancers[d2]),
                     SweepAngle(ParamGet(ctx.call.params.turns, 5000), clockwise),
                     ctx.call.beat_start, ctx.call.beat_end, BeatsPerFrame,
                     <<HandConnection(d1, hand, d2, hand)>>, TRUE),
                 <<d1, d2>>)

star(ctx, clockwise, hand) ==
    LET st == ctx.start_state
    IN  IF Len(ctx.participants) < 2
        THEN Rejected(st, <<"Star", "needs", "at", "least", "2", "participants,", "got",
                            NumStr(Len(ctx.participants))>>)
        ELSE ArcResult(st, ctx.call.beat_end,
                 circular_arc(st, ctx.participants, Centroid(st, ctx.participants),
                     SweepAngle(ParamGet(ctx.call.params.turns, 10000), clockwise),
                     ctx.call.beat_start, ctx.call.beat_end, BeatsPerFrame, <<>>, FALSE),
                 ctx.participants)

circle(ctx, clockwise) ==
    LET st == ctx.start_state
        n == Len(ctx.participants)
    IN  IF n < 2
        THEN Rejected(st, <<"Circle", "needs", "at", "least", "2", "participants,", "got",
                            NumStr(n)>>)
        ELSE ArcResult(st, ctx.call.beat_end,
                 circular_arc(st, ctx.participants, Centroid(st, ctx.participants),
                     SweepAngle(ParamGet(ctx.call.params.turns, 10000), clockwise),
                     ctx.call.beat_start, ctx.call.beat_end, BeatsPerFrame,
                     [i \in 1..n |->
                         HandConnection(ctx.participants[i], "left",
                                        ctx.participants[(i % n) + 1], "right")],
                     TRUE),
                 ctx.participants)

pull_by(ctx, hand) ==
    LET st == ctx.start_state
        d1 == ctx.participants[1]
        d2 == ctx.participants[2]
        swapped(targets) ==
            TargetResult(st, ctx.call.beat_end,
                linear(st, targets, ctx.call.beat_start, ctx.call.beat_end,
                       BeatsPerFrame, <<HandConnection(d1, hand, d2, hand)>>),
                targets)
    IN  IF Len(ctx.participants) # 2
        THEN Rejected(st, <<"Pull", "by", "needs", "2", "participants,", "got",
                            NumStr(Len(ctx.participants))>>)
        \* {d1: ..., d2: ...}: the entry of d2 is written last
        ELSE swapped([did \in {d1, d2} |->
                         IF did = d2
                         THEN DancerState(st.dancers[d1].x, st.dancers[d1].y,
                                          st.dancers[d2].facing)
                         ELSE DancerState(st.dancers[d2].x, st.dancers[d2].y,
                                          st.dancers[d1].facing)])

\* ---- petronella (src/old/contravis/figures/builtin/petronella.py) ----

\* sorted(participants, key): a stable insertion sort
RECURSIVE InsertByKey(_, _, _)
InsertByKey(sorted, d, key) ==
    IF sorted = <<>> THEN <<d>>
    ELSE IF key[d] < key[Head(sorted)] THEN <<d>> \o sorted
    ELSE <<Head(sorted)>> \o InsertByKey(Tail(sorted), d, key)

RECURSIVE SortByKey(_, _)
SortByKey(participants, key) ==
    IF participants = <<>> THEN <<>>
    ELSE InsertByKey(SortByKey(SubSeq(participants, 1, Len(participants) - 1), key),
                     participants[Len(participants)], key)

petronella(ctx) ==
    LET st == ctx.start_state
        \* targets[d] is written for every position of d in the ring, the last one stays
        last_pos(ring, d) ==
            CHOOSE i \in 1..4 : ring[i] = d /\ \A j \in 1..4 : ring[j] = d => j <= i
        stepped(targets) ==
            TargetResult(st, ctx.call.beat_end,
                linear(st, targets, ctx.call.beat_start, ctx.call.beat_end,
                       BeatsPerFrame, <<>>),
                targets)
        around(ring) ==
            stepped([d \in {ring[i] : i \in 1..4} |->
                        DancerState(st.dancers[ring[(last_pos(ring, d) % 4) + 1]].x,
                                    st.dancers[ring[(last_pos(ring, d) % 4) + 1]].y,
                                    (st.dancers[d].facing + 2700) % 3600)])
        \* angle_key(d) = atan2(ds.x - cx, ds.y - cy)
        ordered(c) ==
            around(SortByKey(ctx.participants,
                       [d \in DOMAIN st.dancers |->
                           atan2(st.dancers[d].x - c[1], st.dancers[d].y - c[2])]))
    IN  IF Len(ctx.participants) # 4
        THEN Rejected(st, <<"Petronella", "needs", "4", "participants,", "got",
                            NumStr(Len(ctx.participants))>>)
        ELSE ordered(Centroid(st, ctx.participants))

\* ---- robins_chain (src/old/contravis/figures/builtin/chain.py) ----

\* find_nearest_lark: the first lark at the least distance
RECURSIVE NearestLark(_, _, _, _, _)
NearestLark(mid_state, larks, robin_did, k, best) ==
    IF k > Len(larks) THEN best
    ELSE IF k = 1
            \/ DistSq(mid_state.dancers[robin_did], mid_state.dancers[larks[k]])
                 < DistSq(mid_state.dancers[robin_did], mid_state.dancers[best])
    THEN NearestLark(mid_state, larks, robin_did, k + 1, larks[k])
    ELSE NearestLark(mid_state, larks, robin_did, k + 1, best)

\* the pairing loop of robins_chain from robin k on
RECURSIVE ChainPairs(_, _, _, _, _)
ChainPairs(mid_state, robins, larks, k, used_larks) ==
    LET taken(l) ==
            <<<<robins[k], l>>>>
              \o ChainPairs(mid_state, robins, larks, k + 1, used_larks \cup {l})
        free(nearest) ==
            taken(IF nearest \in used_larks
                  THEN SelectSeq(larks, LAMBDA x : x \notin used_larks)[1]
                  ELSE nearest)
    IN  IF k > Len(robins) THEN <<>>
        ELSE free(NearestLark(mid_state, larks, robins[k], 1, larks[1]))

\* the courtesy-turn loop of robins_chain from pair k on:
\* acc = [all_kf2, end_state dancers]
RECURSIVE CourtesyTurns(_, _, _, _, _, _)
CourtesyTurns(mid_state, pairs_2, mid_beat, beat_end, k, acc) ==
    LET turned(r, l, kf_ct) ==
            [all_kf2 |-> acc.all_kf2 \o kf_ct,
             dancers |-> [did \in DOMAIN acc.dancers |->
                             IF kf_ct # <<>> /\ did \in {r, l}
                             THEN kf_ct[Len(kf_ct)].dancers[did]
                             ELSE acc.dancers[did]]]
        courtesy(r, l) ==
            turned(r, l,
                circular_arc(mid_state, <<r, l>>,
                    midpoint(mid_state.dancers[r], mid_state.dancers[l]), -1800,
                    mid_beat, beat_end, BeatsPerFrame,
                    <<HandConnection(l, "left", r, "left")>>, TRUE))
    IN  IF k > Len(pairs_2) THEN acc
        ELSE CourtesyTurns(mid_state, pairs_2, mid_beat, beat_end, k + 1,
                           courtesy(pairs_2[k][1], pairs_2[k][2]))

robins_chain(ctx) ==
    LET st == ctx.start_state
        robins == SelectSeq(ctx.participants, is_robin)
        larks == SelectSeq(ctx.participants, is_lark)
        \* ctx.beat_start + ctx.duration * 3 / 8
        mid_beat == ctx.call.beat_start
                      + RDiv((ctx.call.beat_end - ctx.call.beat_start) * 3, 8)
        \* keyframes = kf1 + all_kf2
        chained(kf1, turned) ==
            FigureResult(kf1 \o turned.all_kf2,
                WorldState(ctx.call.beat_end, turned.dancers, st.hands), <<>>)
        turn(kf1, mid_state) ==
            chained(kf1,
                CourtesyTurns(mid_state, ChainPairs(mid_state, robins, larks, 1, {}),
                              mid_beat, ctx.call.beat_end, 1,
                              [all_kf2 |-> <<>>, dancers |-> mid_state.dancers]))
        pulled(kf1) ==
            turn(kf1, WorldState(mid_beat, kf1[Len(kf1)].dancers, st.hands))
    IN  IF Len(robins) # 2 \/ Len(larks) # 2
        THEN Rejected(st, <<"Chain", "needs", "2", "robins", "and", "2", "larks,", "got",
                            NumStr(Len(robins)), "R", NumStr(Len(larks)), "L">>)
        \* all_targets_1 = {**robin_targets, **lark_targets}; of the robin targets
        \* the one of r2 is written last
        ELSE pulled(linear(st,
                 [did \in {robins[1], robins[2], larks[1], larks[2]} |->
                     IF is_lark(did)
                     THEN DancerState(RDiv(st.dancers[did].x * 7, 10), st.dancers[did].y,
                                      st.dancers[did].facing)
                     ELSE IF did = robins[2]
                     THEN DancerState(st.dancers[robins[1]].x, st.dancers[robins[1]].y,
                                      st.dancers[robins[1]].facing)
                     ELSE DancerState(st.dancers[robins[2]].x, st.dancers[robins[2]].y,
                                      st.dancers[robins[2]].facing)],
                 ctx.call.beat_start, mid_beat, BeatsPerFrame,
                 <<HandConnection(robins[1], "right", robins[2], "right")>>))

\* ---- the registry (src/old/contravis/figures/base.py) ----

\* the name of the generator registered under name, "" when name is not registered
Canonical(name) ==
    CASE name \in {"swing", "partner_swing", "neighbor_swing"} -> "swing"
      [] name \in {"balance", "balance_right", "balance_left"} -> "balance"
      [] name \in {"do_si_do", "dosido", "do_si_do_once"} -> "do_si_do"
      [] name = "box_the_gnat" -> "box_the_gnat"
      [] name \in {"allemande_right", "allemande_r"} -> "allemande_right"
      [] name \in {"allemande_left", "allemande_l"} -> "allemande_left"
      [] name \in {"star_left", "star_l", "left_hand_star"} -> "star_left"
      [] name \in {"star_right", "star_r", "right_hand_star"} -> "star_right"
      [] name \in {"circle_left", "circle_l"} -> "circle_left"
      [] name \in {"circle_right", "circle_r"} -> "circle_right"
      [] name \in {"pull_by_right", "pull_by_r"} -> "pull_by_right"
      [] name \in {"pull_by_left", "pull_by_l"} -> "pull_by_left"
      [] name = "petronella" -> "petronella"
      [] name \in {"robins_chain", "ladies_chain", "chain"} -> "robins_chain"
      [] OTHER -> ""

\* get_figure(name) is not None
Registered(name) == Canonical(name) # ""

\* get_figure(ctx.call.name)(ctx), for a registered name
CallFigure(ctx) ==
    LET dispatch(f) ==
            CASE f = "swing" -> swing(ctx)
              [] f = "balance" -> balance(ctx)
              [] f = "do_si_do" -> do_si_do(ctx)
              [] f = "box_the_gnat" -> box_the_gnat(ctx)
              [] f \in {"allemande_right", "allemande_left"} ->
                   allemande(ctx, IF f = "allemande_right" THEN "right" ELSE "left",
                             f = "allemande_right")
              [] f \in {"star_left", "star_right"} ->
                   star(ctx, f = "star_right",
                        IF f = "star_right" THEN "right" ELSE "left")
              [] f \in {"circle_left", "circle_right"} -> circle(ctx, f = "circle_right")
              [] f \in {"pull_by_right", "pull_by_left"} ->
                   pull_by(ctx, IF f = "pull_by_right" THEN "right" ELSE "left")
              [] f = "petronella" -> petronella(ctx)
              [] f = "robins_chain" -> robins_chain(ctx)
    IN  dispatch(Canonical(ctx.call.name))


----------------------------------------------------------------------------
(* The objects the generators assign to                                    *)
(*                                                                         *)
(* run_pipeline hands its running WorldState object itself to a generator  *)
(* (start_state=state), so an assignment through a variable bound to that  *)
(* object would change the running state.  The statements of a generator  *)
(* that bind or assign through a WorldState or a dancers dict are listed   *)
(* in program order:                                                       *)
(*   <<"copy", v, w>>   v = w.copy() or v = _copy_dancers(w): a new object *)
(*   <<"alias", v, w>>  v = w: the object of w                             *)
(*   <<"write", v>>     an assignment to a field or an item of v           *)

\* every frame of a primitive: dancers = _copy_dancers(state); dancers[did].x = ...
primitive_writes(st) == <<<<"copy", "dancers", st>>, <<"write", "dancers">>>>

\* a generator that rejects its participants: end_state=state.copy()
rejection_writes == <<<<"copy", "end_state", "state">>>>

\* end_state = state.copy(); end_state.beat = ...; end_state.dancers[did] = ...
end_state_writes == <<<<"copy", "end_state", "state">>, <<"write", "end_state">>>>

swing_writes(rejected) ==
    IF rejected THEN rejection_writes
    ELSE primitive_writes("state") \o end_state_writes
           \* last = keyframes[-1]; last.dancers[did] = ...
           \o <<<<"alias", "last", "dancers">>, <<"write", "last">>>>

do_si_do_writes(rejected) ==
    IF rejected THEN rejection_writes ELSE primitive_writes("state") \o end_state_writes

box_the_gnat_writes(rejected) ==
    IF rejected THEN rejection_writes ELSE primitive_writes("state") \o end_state_writes

\* balance never rejects; its second phase starts from mid_state
balance_writes(rejected) ==
    primitive_writes("state")
      \o <<<<"copy", "mid_state", "state">>, <<"write", "mid_state">>>>
      \o primitive_writes("mid_state")
      \o end_state_writes

allemande_writes(rejected) ==
    IF rejected THEN rejection_writes ELSE primitive_writes("state") \o end_state_writes

star_writes(rejected) ==
    IF rejected THEN rejection_writes ELSE primitive_writes("state") \o end_state_writes

\* circle_writes gone wrong: end_state = state, without the copy
circle_writes_in_place(rejected) ==
    IF rejected THEN rejection_writes
    ELSE primitive_writes("state")
           \o <<<<"alias", "end_state", "state">>, <<"write", "end_state">>>>

circle_writes(rejected) ==
    IF rejected THEN rejection_writes ELSE primitive_writes("state") \o end_state_writes

pull_by_writes(rejected) ==
    IF rejected THEN rejection_writes ELSE primitive_writes("state") \o end_state_writes

petronella_writes(rejected) ==
    IF rejected THEN rejection_writes ELSE primitive_writes("state") \o end_state_writes

\* robins_chain: end_state = mid_state.copy(), written in the courtesy-turn loop
robins_chain_writes(rejected) ==
    IF rejected THEN rejection_writes
    ELSE primitive_writes("state")
           \o <<<<"copy", "mid_state", "state">>, <<"write", "mid_state">>>>
           \o <<<<"copy", "end_state", "mid_state">>>>
           \o primitive_writes("mid_state")
           \o <<<<"write", "end_state">>>>

\* the statements of the generator registered under name
FigureWrites(name, rejected) ==
    LET dispatch(f) ==
            CASE f = "swing" -> swing_writes(rejected)
              [] f = "balance" -> balance_writes(rejected)
              [] f = "do_si_do" -> do_si_do_writes(rejected)
              [] f = "box_the_gnat" -> box_the_gnat_writes(rejected)
              [] f \in {"allemande_right", "allemande_left"} -> allemande_writes(rejected)
              [] f \in {"star_left", "star_right"} -> star_writes(rejected)
              [] f \in {"circle_left", "circle_right"} -> circle_writes(rejected)
              [] f \in {"pull_by_right", "pull_by_left"} -> pull_by_writes(rejected)
              [] f = "petronella" -> petronella_writes(rejected)
              [] f = "robins_chain" -> robins_chain_writes(rejected)
    IN  dispatch(Canonical(name))

\* the objects written by statements: bound[v] is the object of variable v, an
\* object made by a copy is named after the variable it is first bound to
RECURSIVE WrittenObjects(_, _, _)
WrittenObjects(statements, bound, written) ==
    LET step(s) ==
            CASE s[1] = "copy" ->
                   WrittenObjects(Tail(statements), [bound EXCEPT ![s[2]] = s[2]], written)
              [] s[1] = "alias" ->
                   WrittenObjects(Tail(statements), [bound EXCEPT ![s[2]] = bound[s[3]]],
                                  written)
              [] s[1] = "write" ->
                   WrittenObjects(Tail(statements), bound, written \cup {bound[s[2]]})
    IN  IF statements = <<>> THEN written ELSE step(Head(statements))

\* state = ctx.start_state: the object handed in
BoundAtEntry ==
    [v \in {"state", "mid_state", "end_state", "dancers", "last"} |->
        IF v = "state" THEN "start_state" ELSE "unbound"]

\* ctx.start_state when the generator has returned result: as handed in unless
\* the generator assigned through a variable bound to that object, in which case
\* the object holds what was assigned (the end poses and the end beat)
start_state_after(ctx, result) ==
    IF "start_state" \in WrittenObjects(FigureWrites(ctx.call.name, result.keyframes = <<>>),
                                        BoundAtEntry, {})
    THEN result.end_state
    ELSE ctx.start_state

----------------------------------------------------------------------------
(* Participant resolver (src/contravis/world.py, src/contravis/pipeline.py) *)

\* ref.lower().strip() on the spellings the runs use
LowerStrip(ref) ==
    CASE ref = "Partners" -> "partners"
      [] ref = " neighbors " -> "neighbors"
      [] ref = "ALL" -> "all"
      [] OTHER -> ref

\* the references resolve_participant_group knows
KnownGroups ==
    {"partner", "partners", "neighbor", "neighbors", "opposite", "opposites",
     "lark", "larks", "gentlespoons", "robin", "robins", "ladles"}

\* resolve_participant_group(reference), for a reference of KnownGroups
\* (any other reference raises ValueError)
resolve_participant_group(reference) ==
    LET resolved(ref) ==
            CASE ref \in {"partner", "partners"} ->
                   <<<<"up_lark", "up_robin">>, <<"down_lark", "down_robin">>>>
              [] ref \in {"neighbor", "neighbors"} ->
                   <<<<"up_lark", "down_robin">>, <<"up_robin", "down_lark">>>>
              [] ref \in {"opposite", "opposites"} ->
                   <<<<"up_lark", "down_lark">>, <<"up_robin", "down_robin">>>>
              [] ref \in {"lark", "larks", "gentlespoons"} -> <<<<"up_lark", "down_lark">>>>
              [] ref \in {"robin", "robins", "ladles"} -> <<<<"up_robin", "down_robin">>>>
    IN  resolved(LowerStrip(reference))

\* the pairs of resolved that are not yet in pairs, appended in order
RECURSIVE AppendUnseen(_, _)
AppendUnseen(pairs, resolved) ==
    IF resolved = <<>> THEN pairs
    ELSE AppendUnseen(IF InSeq(Head(resolved), pairs) THEN pairs
                      ELSE Append(pairs, Head(resolved)),
                      Tail(resolved))

\* the loop of _resolve_participant_pairs from reference k on
RECURSIVE ResolveFrom(_, _, _)
ResolveFrom(references, k, pairs) ==
    LET step(ref_lower) ==
            IF ref_lower \in {"all", "everyone"}
            THEN <<<<"up_lark", "up_robin">>, <<"down_lark", "down_robin">>,
                   <<"up_lark", "down_robin">>, <<"up_robin", "down_lark">>>>
            ELSE ResolveFrom(references, k + 1,
                             IF ref_lower \in KnownGroups
                             THEN AppendUnseen(pairs, resolve_participant_group(ref_lower))
                             \* except ValueError: pass
                             ELSE pairs)
    IN  IF k > Len(references) THEN pairs ELSE step(LowerStrip(references[k]))

resolve_participant_pairs(references) == ResolveFrom(references, 1, <<>>)

----------------------------------------------------------------------------
(* Orchestrator (src/contravis/pipeline.py)                                *)

\* the loop of _group_concurrent: groups closed so far, and the current group
RECURSIVE GroupFrom(_, _, _, _)
GroupFrom(calls, k, groups, current_group) ==
    LET step(fc, same) ==
            GroupFrom(calls, k + 1,
                      IF same THEN groups ELSE Append(groups, current_group),
                      IF same THEN Append(current_group, fc) ELSE <<fc>>)
    IN  IF k > Len(calls) THEN Append(groups, current_group)
        ELSE step(calls[k], calls[k].beat_start = current_group[1].beat_start
                            /\ calls[k].beat_end = current_group[1].beat_end)

\* group_concurrent gone wrong: every invocation is a group of its own
group_each_alone(calls) == [k \in 1..Len(calls) |-> <<calls[k]>>]

group_concurrent(calls) ==
    IF calls = <<>> THEN <<>> ELSE GroupFrom(calls, 2, <<>>, <<calls[1]>>)

\* "participants" in w.lower(), w a sequence of words
MentionsParticipants(w) ==
    \E k \in 1..Len(w) : w[k] \in {"participants", "participants,", "Participants"}

\* result.warnings and any("participants" in w.lower() for w in result.warnings)
CountRejected(result) ==
    \E k \in 1..Len(result.warnings) : MentionsParticipants(result.warnings[k])

\* UpdateDancers gone wrong: the running poses are left for the end of the group
UpdateDancersDeferred(dancers, dids, end_state) == dancers

\* for did in dids: if did in end_state.dancers: state.dancers[did] = end_state.dancers[did]
UpdateDancers(dancers, dids, end_state) ==
    [did \in DOMAIN dancers |->
        IF InSeq(did, dids) /\ did \in DOMAIN end_state.dancers
        THEN end_state.dancers[did]
        ELSE dancers[did]]

\* StartStateOf gone wrong: every call is given the poses of the group's beginning
StartStateOfGroup(running, started) == [running EXCEPT !.dancers = started]

\* the snapshot a generator call of the group is given as start_state:
\* FigureContext(call=fc, start_state=state, ...), the running state itself
StartStateOf(running, started) == running

\* Accumulate gone wrong: every result is authoritative for all four dancers
AccumulateEveryone(results, keyframes, authoritative) ==
    IF keyframes # <<>> THEN Append(results, <<keyframes, DancerID>>) ELSE results

\* concurrent_results after a call that returned keyframes for authoritative
Accumulate(results, keyframes, authoritative) ==
    IF keyframes # <<>>
    THEN Append(results, <<keyframes, {authoritative[k] : k \in 1..Len(authoritative)}>>)
    ELSE results

\* the keyframes a finished group adds to all_keyframes
MergeResults(results) ==
    IF results = <<>> THEN <<>>
    ELSE IF Len(results) = 1 THEN results[1][1]
    ELSE merge_keyframe_lists(results)

groups == group_concurrent(figure_calls)

InGroupLoop == pc = "loop" /\ gi <= Len(groups) /\ ci <= Len(groups[gi])

fc == groups[gi][ci]

participant_pairs == resolve_participant_pairs(fc.participants)

NoCall ==
    [kind |-> "none", pos |-> <<0, 0, 0>>, prev_pos |-> <<0, 0, 0>>, name |-> "",
     start_dancers |-> <<>>, started |-> <<>>, earlier |-> <<>>, before |-> <<>>,
     participants |-> <<>>, result |-> <<>>]

\* the record of a generator call, kept for the properties
CallRecord(kind, position, ctx, result) ==
    [kind |-> kind, pos |-> position, prev_pos |-> last_call.pos, name |-> ctx.call.name,
     start_dancers |-> ctx.start_state.dancers, started |-> group_start,
     earlier |-> group_calls, before |-> state.dancers,
     participants |-> ctx.participants, result |-> <<result>>]

\* UnknownFigure gone wrong: break instead of continue
UnknownFigureBreaks ==
    /\ InGroupLoop
    /\ ~Registered(fc.name)
    /\ all_warnings' = Append(all_warnings, <<"Unknown", "figure:", fc.name>>)
    /\ ci' = Len(groups[gi]) + 1
    /\ UNCHANGED <<figure_calls, formation, progression, state, all_keyframes,
                   concurrent_results, gi, pi, pc, group_start, group_calls, last_call,
                   arg, res>>

\* get_figure(fc.name) is None: warn and continue
UnknownFigure ==
    /\ InGroupLoop
    /\ ~Registered(fc.name)
    /\ all_warnings' = Append(all_warnings, <<"Unknown", "figure:", fc.name>>)
    /\ ci' = ci + 1
    /\ UNCHANGED <<figure_calls, formation, progression, state, all_keyframes,
                   concurrent_results, gi, pi, pc, group_start, group_calls, last_call,
                   arg, res>>

\* no participant pair resolved: warn and continue
UnresolvedParticipants ==
    /\ InGroupLoop
    /\ Registered(fc.name)
    /\ participant_pairs = <<>>
    /\ all_warnings' = Append(all_warnings,
                           <<"Could", "not", "resolve", "participants", "for", fc.name>>)
    /\ ci' = ci + 1
    /\ UNCHANGED <<figure_calls, formation, progression, state, all_keyframes,
                   concurrent_results, gi, pi, pc, group_start, group_calls, last_call,
                   arg, res>>

\* the effects of a generator call whose result is kept
Keep(kind, position, ctx, result) ==
    /\ all_warnings' = all_warnings \o result.warnings
    /\ concurrent_results' =
           Accumulate(concurrent_results, result.keyframes, ctx.participants)
    /\ state' = [state EXCEPT !.dancers =
                    UpdateDancers(@, ctx.participants, result.end_state)]
    /\ group_calls' = Append(group_calls, <<ctx.participants, result.end_state.dancers>>)
    /\ last_call' = CallRecord(kind, position, ctx, result)

\* the call with all participants: kept, or rejected for their number
\* and then repeated per pair
RunFigure ==
    /\ InGroupLoop
    /\ Registered(fc.name)
    /\ LET called(ctx, result) ==
               IF CountRejected(result)
               THEN /\ last_call' = CallRecord("rejected", <<gi, ci, 0>>, ctx, result)
                    /\ pc' = "pairs"
                    /\ pi' = 1
                    /\ UNCHANGED <<state, all_warnings, concurrent_results, ci, group_calls>>
               ELSE /\ Keep("all", <<gi, ci, 0>>, ctx, result)
                    /\ ci' = ci + 1
                    /\ UNCHANGED <<pc, pi>>
           run(ctx) == called(ctx, CallFigure(ctx))
           resolved(pairs) ==
               /\ pairs # <<>>
               /\ run(FigureContext(fc, StartStateOf(state, group_start), Flatten(pairs)))
       IN  resolved(participant_pairs)
    /\ UNCHANGED <<figure_calls, formation, progression, all_keyframes, gi, group_start,
                   arg, res>>

\* one call of the per-pair loop
RunPair ==
    /\ pc = "pairs"
    /\ LET run(ctx) == Keep("pair", <<gi, ci, pi>>, ctx, CallFigure(ctx))
           each(pairs) ==
               /\ run(FigureContext(fc, StartStateOf(state, group_start), pairs[pi]))
               /\ IF pi < Len(pairs)
                  THEN pi' = pi + 1 /\ UNCHANGED <<pc, ci>>
                  ELSE pi' = 0 /\ pc' = "loop" /\ ci' = ci + 1
       IN  each(participant_pairs)
    /\ UNCHANGED <<figure_calls, formation, progression, all_keyframes, gi, group_start,
                   arg, res>>

\* after the calls of a group: merge, extend the master list, advance the beat
MergeGroup ==
    /\ pc = "loop"
    /\ gi <= Len(groups)
    /\ ci > Len(groups[gi])
    /\ all_keyframes' = all_keyframes \o MergeResults(concurrent_results)
    /\ state' = [state EXCEPT !.beat = groups[gi][1].beat_end]
    /\ concurrent_results' = <<>>
    /\ gi' = gi + 1
    /\ ci' = 1
    /\ group_start' = state.dancers
    /\ group_calls' = <<>>
    /\ UNCHANGED <<figure_calls, formation, progression, all_warnings, pi, pc, last_call,
                   arg, res>>

----------------------------------------------------------------------------
(* Sanity checks (src/old/contravis/sanity.py)                             *)

\* the order of the dancers dict of every WorldState and Keyframe
DictOrder == <<"down_lark", "down_robin", "up_robin", "up_lark">>

\* check_collisions: min_distance = 0.3
check_collisions(keyframes) ==
    Flatten([k \in 1..Len(keyframes) |->
        Flatten([i \in 1..4 |->
            Flatten([j \in 1..4 |->
                IF i < j /\ DistSq(keyframes[k].dancers[DictOrder[i]],
                                   keyframes[k].dancers[DictOrder[j]]) < 300 * 300
                THEN <<<<"Beat", DictOrder[i], "and", DictOrder[j], "apart">>>>
                ELSE <<>>])])])

\* check_speed gone wrong: the pairs without a positive beat difference are swept too
check_speed_every_pair(keyframes) ==
    Flatten([k \in 1..Len(keyframes) |->
        IF k = 1 THEN <<>>
        ELSE LET dt == Abs(keyframes[k].beat - keyframes[k - 1].beat)
             IN  Flatten([i \in 1..4 |->
                     LET prev == keyframes[k - 1].dancers[DancerIDs[i]]
                         curr == keyframes[k].dancers[DancerIDs[i]]
                     IN  IF hypot(curr.x - prev.x, curr.y - prev.y) * 3000 > dt
                         THEN <<<<"Beat", DancerIDs[i], "moving">>>>
                         ELSE <<>>])])

\* check_speed: speed = hypot / dt > max_speed = 1.0 per beat
check_speed(keyframes) ==
    Flatten([k \in 1..Len(keyframes) |->
        IF k = 1 \/ keyframes[k].beat - keyframes[k - 1].beat <= 0 THEN <<>>
        ELSE LET dt == keyframes[k].beat - keyframes[k - 1].beat
             IN  Flatten([i \in 1..4 |->
                     LET prev == keyframes[k - 1].dancers[DancerIDs[i]]
                         curr == keyframes[k].dancers[DancerIDs[i]]
                     IN  IF hypot(curr.x - prev.x, curr.y - prev.y) * 3000 > dt
                         THEN <<<<"Beat", DancerIDs[i], "moving">>>>
                         ELSE <<>>])])

\* check_spin: spin_rate = diff / dt > max_spin = 180 degrees per beat
check_spin(keyframes) ==
    Flatten([k \in 1..Len(keyframes) |->
        IF k = 1 \/ keyframes[k].beat - keyframes[k - 1].beat <= 0 THEN <<>>
        ELSE LET dt == keyframes[k].beat - keyframes[k - 1].beat
             IN  Flatten([i \in 1..4 |->
                     LET prev_facing == keyframes[k - 1].dancers[DancerIDs[i]].facing
                         curr_facing == keyframes[k].dancers[DancerIDs[i]].facing
                         diff == Abs(((curr_facing - prev_facing + 1800) % 3600) - 1800)
                     IN  IF diff * 5000 > 3 * dt
                         THEN <<<<"Beat", DancerIDs[i], "spinning">>>>
                         ELSE <<>>])])

run_all_checks(keyframes) ==
    check_collisions(keyframes) \o check_speed(keyframes) \o check_spin(keyframes)

\* check_progression gone wrong: every agent is expected to move up
check_progression_all_up(start, end, expected_displacement) ==
    Flatten([i \in 1..4 |->
        LET did == DancerIDs[i]
            dy == end.dancers[did].y - start.dancers[did].y
            dx == Abs(end.dancers[did].x - start.dancers[did].x)
        IN  (IF Abs(dy - expected_displacement) > 150
             THEN <<<<"Progression:", did, "displaced">>>> ELSE <<>>)
            \o (IF dx > 150
                THEN <<<<"Progression:", did, "x-displacement">>>> ELSE <<>>)])

\* check_progression: tolerance = 0.15
check_progression(start, end, expected_displacement) ==
    Flatten([i \in 1..4 |->
        LET did == DancerIDs[i]
            dy == end.dancers[did].y - start.dancers[did].y
            dx == Abs(end.dancers[did].x - start.dancers[did].x)
            expected_y == IF is_up(did) THEN expected_displacement
                          ELSE -expected_displacement
        IN  (IF Abs(dy - expected_y) > 150
             THEN <<<<"Progression:", did, "displaced">>>> ELSE <<>>)
            \o (IF dx > 150
                THEN <<<<"Progression:", did, "x-displacement">>>> ELSE <<>>)])

\* after the last group: the sanity checks, and the progression check from beat 64 on
Finish ==
    /\ pc = "loop"
    /\ gi > Len(groups)
    /\ all_warnings' =
           all_warnings \o run_all_checks(all_keyframes)
             \o (IF state.beat >= 64 * 3000000
                 THEN check_progression(make_formation(formation), state, progression)
                 ELSE <<>>)
    /\ pc' = "done"
    /\ UNCHANGED <<figure_calls, formation, progression, state, all_keyframes,
                   concurrent_results, gi, ci, pi, group_start, group_calls, last_call, arg,
                   res>>

----------------------------------------------------------------------------
(* The runs of run_pipeline that are explored                              *)

\* the longest invocation list
MaxCalls == 2

\* the beat ranges of successive groups: 2 and 3 frame steps long in turn
Ranges ==
    [k \in 1..(MaxCalls + 1) |->
        <<BeatsPerFrame * ((5 * (k - 1)) \div 2), BeatsPerFrame * ((5 * k) \div 2)>>]

WithParams(turns, target_facing, end_center, revolutions) ==
    [NoParams EXCEPT !.turns = turns, !.target_facing = target_facing,
                     !.end_center = end_center, !.revolutions = revolutions]

\* the invocations the lists are made of: <<name, participants, params>>
Moves ==
    <<
      <<"swing", <<"larks", "bogus">>, WithParams(<<>>, <<900>>, <<<<0, 0>>>>, <<>>)>>,
      <<"partner_swing", <<" neighbors ">>, WithParams(<<>>, <<-900>>, <<<<0, 500>>>>, <<10000>>)>>,
      <<"balance", <<"Partners">>, NoParams>>,
      <<"chain", <<"partners">>, NoParams>>,
      <<"circle_left", <<"all">>, WithParams(<<5000>>, <<>>, <<>>, <<>>)>>,
      <<"gypsy", <<"partners">>, NoParams>>,
      <<"petronella", <<"bogus">>, NoParams>>
    >>

\* the list of n invocations with moves ms; shared[i] puts invocation i into the
\* beat range of invocation i - 1, otherwise it takes the next range
CallList(n, ms, shared) ==
    LET RECURSIVE range_of(_)
        range_of(i) == IF i = 1 THEN 1
                       ELSE range_of(i - 1) + (IF shared[i] THEN 0 ELSE 1)
        call(move, range) == FigureCall(move[1], range[1], range[2], move[2], move[3])
    IN  [i \in 1..n |-> call(Moves[ms[i]], Ranges[range_of(i)])]

CallLists ==
    UNION {{CallList(n, ms, shared) :
               ms \in [1..n -> 1..Len(Moves)], shared \in [1..n -> BOOLEAN]} :
           n \in 0..MaxCalls}

\* short timelines that end at beat 64: one that starts at beat 63.5, one that
\* starts at beat 0, and the latter listed backwards
LateLists ==
    {<<FigureCall("balance", 190500000, 192000000, <<"partners">>, NoParams)>>,
     <<FigureCall("balance", 0, 1500000, <<"partners">>, NoParams),
       FigureCall("balance", 190500000, 192000000, <<"partners">>, NoParams)>>,
     <<FigureCall("balance", 190500000, 192000000, <<"partners">>, NoParams),
       FigureCall("balance", 0, 1500000, <<"partners">>, NoParams)>>}

Init ==
    /\ figure_calls \in CallLists \cup LateLists
    /\ formation \in Formation
    /\ progression = 1000
    /\ state = make_formation(formation)
    /\ all_keyframes = <<>>
    /\ all_warnings = <<>>
    /\ concurrent_results = <<>>
    /\ gi = 1
    /\ ci = 1
    /\ pi = 0
    /\ pc = "loop"
    /\ group_start = state.dancers
    /\ group_calls = <<>>
    /\ last_call = NoCall
    /\ arg = <<>>
    /\ res = <<>>

Next ==
    \/ UnknownFigure
    \/ UnresolvedParticipants
    \/ RunFigure
    \/ RunPair
    \/ MergeGroup
    \/ Finish

Spec == Init /\ [][Next]_vars

----------------------------------------------------------------------------
(* Single calls of the primitives and of the merge engine                  *)

\* the longest list handed to merge_keyframe_lists
MaxLists == 2

\* the beat ranges of the single calls: 2, 3 and 2.5 frame steps, and less than one
CallRanges == {<<0, 1500000>>, <<1500000, 3750000>>, <<750000, 2625000>>, <<0, 562500>>}

\* the snapshots the primitives are called on: the formations, and the running
\* state after a swing from each formation
Snapshots ==
    {make_formation(f) : f \in Formation}
      \cup {CallFigure(FigureContext(
                FigureCall("swing", 0, 1500000, <<>>,
                           WithParams(<<>>, <<-900>>, <<<<0, 500>>>>, <<10000>>)),
                make_formation(f), <<"up_lark", "down_robin">>)).end_state :
            f \in Formation}

Couples ==
    {<<"up_lark", "up_robin">>, <<"up_lark", "down_robin">>, <<"up_robin", "down_robin">>}

FnArg(fn, st, participants, center, total_angle, face_center, targets, total_revolutions, closing_distance, range, lists) ==
    [fn |-> fn, st |-> st, participants |-> participants, center |-> center,
     total_angle |-> total_angle, face_center |-> face_center, targets |-> targets,
     total_revolutions |-> total_revolutions, closing_distance |-> closing_distance,
     range |-> range, lists |-> lists]

\* circular_arc as allemande, do_si_do, star and circle call it
ArcArgs ==
    {FnArg("circular_arc", st, participants, Centroid(st, participants), total_angle,
           face_center, <<>>, 0, 0, range, <<>>) :
        st \in Snapshots, participants \in Couples \cup {DancerIDs},
        total_angle \in {1800, -900}, face_center \in BOOLEAN, range \in CallRanges}

\* linear as pull_by calls it (the participants change places) and as balance
\* calls it (a step of 0.3 towards the other, the facing kept)
LinearArgs ==
    {FnArg("linear", st, participants, <<0, 0>>, 0, FALSE,
           [k \in 1..Len(participants) |->
               IF swap THEN st.dancers[participants[(k % Len(participants)) + 1]]
               ELSE DancerState(st.dancers[participants[k]].x,
                                st.dancers[participants[k]].y + 300,
                                st.dancers[participants[k]].facing)],
           0, 0, range, <<>>) :
        st \in Snapshots, participants \in Couples \cup {DancerIDs},
        swap \in BOOLEAN, range \in CallRanges}

\* the facings linear turns between
TurnFacings == {0, 100, 900, 1800, 3500}

\* linear turning one dancer on the spot from one facing to another
TurnArgs ==
    {FnArg("linear",
           [make_formation(f) EXCEPT !.dancers["up_lark"].facing = s],
           <<"up_lark">>, <<0, 0>>, 0, FALSE,
           <<DancerState(make_formation(f).dancers["up_lark"].x,
                         make_formation(f).dancers["up_lark"].y, g)>>,
           0, 0, range, <<>>) :
        f \in Formation, s \in TurnFacings, g \in TurnFacings, range \in CallRanges}

\* orbit as swing calls it (closing_distance 0.15) and with its default (0.2)
OrbitArgs ==
    {FnArg("orbit", st, participants, <<0, 0>>, 0, FALSE, <<>>, total_revolutions,
           closing_distance, range, <<>>) :
        st \in Snapshots, participants \in Couples,
        total_revolutions \in {5000, 7600}, closing_distance \in {150, 200},
        range \in CallRanges}

\* orbit over eight beats, 32 frame steps
LongOrbitArgs ==
    {FnArg("orbit", make_formation(f), participants, <<0, 0>>, 0, FALSE, <<>>,
           total_revolutions, closing_distance, <<0, 24000000>>, <<>>) :
        f \in Formation, participants \in Couples, total_revolutions \in {5000, 20000},
        closing_distance \in {150, 200}}

\* the generator calls whose results are merged: <<name, participants, params>>
MergeMoves ==
    <<
      <<"allemande_right", <<"up_lark", "down_lark">>, NoParams>>,
      <<"do_si_do", <<"up_robin", "down_robin">>, NoParams>>,
      <<"balance", <<"up_robin", "down_robin">>, NoParams>>,
      <<"box_the_gnat", <<"up_lark", "up_robin">>, NoParams>>,
      <<"swing", <<"down_lark", "down_robin">>,
        WithParams(<<>>, <<900>>, <<<<0, 500>>>>, <<10000>>)>>,
      <<"circle_left", DancerIDs, WithParams(<<5000>>, <<>>, <<>>, <<>>)>>,
      <<"chain", DancerIDs, NoParams>>
    >>

\* the element of concurrent_results a kept call of move m contributes
MergeInput(m, st, range) ==
    LET kept(participants, result) ==
            <<result.keyframes, {participants[k] : k \in 1..Len(participants)}>>
    IN  kept(m[2], CallFigure(FigureContext(FigureCall(m[1], range[1], range[2], <<>>, m[3]),
                                            st, m[2])))

MergeArgs ==
    UNION {{FnArg("merge", make_formation(f), <<>>, <<0, 0>>, 0, FALSE, <<>>, 0, 0, range,
                  [k \in 1..n |-> MergeInput(MergeMoves[ms[k]], make_formation(f), range)]) :
               ms \in [1..n -> 1..Len(MergeMoves)], f \in Formation,
               range \in CallRanges \ {<<0, 562500>>}} :
           n \in 0..MaxLists}

IdlePipeline ==
    /\ figure_calls = <<>>
    /\ formation = "improper"
    /\ progression = 1000
    /\ state = make_formation(formation)
    /\ all_keyframes = <<>>
    /\ all_warnings = <<>>
    /\ concurrent_results = <<>>
    /\ gi = 1
    /\ ci = 1
    /\ pi = 0
    /\ pc = "idle"
    /\ group_start = state.dancers
    /\ group_calls = <<>>
    /\ last_call = NoCall

InitFn ==
    /\ arg \in ArcArgs \cup LinearArgs \cup TurnArgs \cup OrbitArgs \cup LongOrbitArgs \cup MergeArgs
    /\ res = <<>>
    /\ IdlePipeline

CallCircularArc ==
    /\ res = <<>>
    /\ arg.fn = "circular_arc"
    /\ res' = <<circular_arc(arg.st, arg.participants, arg.center, arg.total_angle,
                             arg.range[1], arg.range[2], BeatsPerFrame, <<>>,
                             arg.face_center)>>
    /\ UNCHANGED <<arg, pvars>>

CallLinear ==
    /\ res = <<>>
    /\ arg.fn = "linear"
    /\ res' = <<linear(arg.st,
                       [did \in {arg.participants[k] : k \in 1..Len(arg.participants)} |->
                           arg.targets[CHOOSE k \in 1..Len(arg.participants) :
                                           arg.participants[k] = did]],
                       arg.range[1], arg.range[2], BeatsPerFrame, <<>>)>>
    /\ UNCHANGED <<arg, pvars>>

CallOrbit ==
    /\ res = <<>>
    /\ arg.fn = "orbit"
    /\ res' = <<orbit(arg.st, arg.participants, arg.total_revolutions, arg.range[1],
                      arg.range[2], BeatsPerFrame, arg.closing_distance, <<>>)>>
    /\ UNCHANGED <<arg, pvars>>

CallMerge ==
    /\ res = <<>>
    /\ arg.fn = "merge"
    /\ res' = <<merge_keyframe_lists(arg.lists)>>
    /\ UNCHANGED <<arg, pvars>>

NextFn ==
    \/ CallCircularArc
    \/ CallLinear
    \/ CallOrbit
    \/ CallMerge

SpecFn == InitFn /\ [][NextFn]_vars

----------------------------------------------------------------------------
(* Properties of run_pipeline                                              *)

\* position a = <<group, call, pair>> comes before position b
PosLess(a, b) ==
    \/ a[1] < b[1]
    \/ a[1] = b[1] /\ a[2] < b[2]
    \/ a[1] = b[1] /\ a[2] = b[2] /\ a[3] < b[3]

\* the poses dancers after the kept calls <<participants, end poses>>, in order
RECURSIVE ApplyCalls(_, _)
ApplyCalls(dancers, calls) ==
    IF calls = <<>> THEN dancers
    ELSE ApplyCalls([d \in DOMAIN dancers |->
                        IF InSeq(d, Head(calls)[1]) THEN Head(calls)[2][d] ELSE dancers[d]],
                    Tail(calls))

StrictlyIncreasing(keyframes) ==
    \A k \in 2..Len(keyframes) : keyframes[k].beat > keyframes[k - 1].beat

FacingInRange(dancers) ==
    \A d \in DOMAIN dancers : 0 <= dancers[d].facing /\ dancers[d].facing < 3600

\* C1: the master keyframe sequence returned by run_pipeline is strictly
\* increasing in beat, across the seams between groups and inside the sequence
\* of a multi-phase move.
C1_MasterStrictlyIncreasing ==
    pc = "done" => StrictlyIncreasing(all_keyframes)

C3_ImmediateUpdate ==
    [][/\ (last_call' # last_call /\ last_call'.kind \in {"all", "pair"}) =>
              /\ \A d \in DOMAIN state.dancers :
                     state'.dancers[d] =
                         IF InSeq(d, last_call'.participants)
                         THEN last_call'.result[1].end_state.dancers[d]
                         ELSE state.dancers[d]
              /\ state'.beat = state.beat
       /\ (last_call' # last_call /\ last_call'.kind = "rejected") => state' = state
       /\ state'.beat # state.beat =>
              /\ gi' = gi + 1
              /\ ci > Len(groups[gi])
              /\ state'.beat = groups[gi][1].beat_end
              /\ state'.dancers = state.dancers
       /\ gi' # gi => state'.beat = groups[gi][1].beat_end
      ]_vars

\* a per-pair call of a later group has moved its two participants and no other
C3_Witness ==
    /\ last_call.kind = "pair"
    /\ state.beat > 0
    /\ \E d \in DOMAIN state.dancers : state.dancers[d] # last_call.before[d]
    /\ \E d \in DOMAIN state.dancers : ~InSeq(d, last_call.participants)

\* C4: when a generator returns keyframes, the pose of every participant in the
\* last keyframe is its pose in the reported end_state.
C4_LastFrameIsEndState ==
    (last_call.kind # "none" /\ last_call.result[1].keyframes # <<>>) =>
        \A k \in 1..Len(last_call.participants) :
            last_call.result[1].keyframes[Len(last_call.result[1].keyframes)]
                .dancers[last_call.participants[k]]
              = last_call.result[1].end_state.dancers[last_call.participants[k]]

\* C6: every facing of the returned keyframes and of the returned final
\* snapshot lies in [0, 360).
C6_FacingsInRange ==
    pc = "done" =>
        /\ \A k \in 1..Len(all_keyframes) : FacingInRange(all_keyframes[k].dancers)
        /\ FacingInRange(state.dancers)

----------------------------------------------------------------------------
(* Properties of the primitives                                            *)

\* the dancers a primitive call moves
Moving == {arg.participants[k] : k \in 1..Len(arg.participants)}

\* the pivot of a primitive call: the given center, for orbit the midpoint
Pivot ==
    IF arg.fn = "orbit"
    THEN midpoint(arg.st.dancers[arg.participants[1]], arg.st.dancers[arg.participants[2]])
    ELSE arg.center

PrimitiveDone == arg.fn \in {"circular_arc", "linear", "orbit"} /\ res # <<>>

\* C5 as stated: the first keyframe of a primitive has the beat beat_start and
\* gives every agent its pose (x, y and facing) of the snapshot passed in.
C5_FirstFrameIsSnapshot ==
    PrimitiveDone =>
        /\ res[1][1].beat = arg.range[1]
        /\ res[1][1].dancers = arg.st.dancers

\* C5 amended: the first keyframe has the beat beat_start and gives every agent
\* its x and y of the snapshot; the facing is the snapshot's for the agents that
\* do not move and for circular_arc without face_center, the snapshot's wrapped
\* to [0, 360) for the agents linear moves, and the direction from the agent to
\* the pivot for circular_arc with face_center and for orbit.
C5_FirstFrameKeepsPositions ==
    PrimitiveDone =>
        /\ res[1][1].beat = arg.range[1]
        /\ \A d \in DancerID :
               /\ res[1][1].dancers[d].x = arg.st.dancers[d].x
               /\ res[1][1].dancers[d].y = arg.st.dancers[d].y
               /\ res[1][1].dancers[d].facing =
                      IF d \notin Moving \/ (arg.fn = "circular_arc" /\ ~arg.face_center)
                      THEN arg.st.dancers[d].facing
                      ELSE IF arg.fn = "linear" THEN arg.st.dancers[d].facing % 3600
                      ELSE atan2(Pivot[1] - arg.st.dancers[d].x,
                                 Pivot[2] - arg.st.dancers[d].y) % 3600

\* a primitive has turned a moving agent in its first keyframe
C5_Witness ==
    /\ PrimitiveDone
    /\ \E d \in Moving : res[1][1].dancers[d].facing # arg.st.dancers[d].facing
    /\ \E d \in DancerID \ Moving : res[1][1].dancers[d] = arg.st.dancers[d]

----------------------------------------------------------------------------
(* Properties of merge_keyframe_lists                                      *)

MergeDone == arg.fn = "merge" /\ res # <<>>

\* the inputs are keyframe sequences in increasing beat over one beat range
InputsAligned ==
    \A i \in 1..Len(arg.lists) :
        /\ Len(arg.lists[i][1]) >= 2
        /\ StrictlyIncreasing(arg.lists[i][1])
        /\ arg.lists[i][1][1].beat = arg.lists[1][1][1].beat
        /\ arg.lists[i][1][Len(arg.lists[i][1])].beat
             = arg.lists[1][1][Len(arg.lists[1][1])].beat

\* the frames of kf_list at the beat b
ExactAt(kf_list, b) == {k \in 1..Len(kf_list) : Round6(kf_list[k].beat) = b}

\* the consecutive frames of kf_list that bracket the beat b
BracketAt(kf_list, b) ==
    {k \in 1..(Len(kf_list) - 1) : kf_list[k].beat < b /\ b < kf_list[k + 1].beat}

\* the pose a fraction num / den of the way from p0 to p1, the facing along the
\* shorter arc
PoseBetween(p0, p1, num, den) ==
    DancerState(p0.x + MulFrac(p1.x - p0.x, num, den),
                p0.y + MulFrac(p1.y - p0.y, num, den),
                p0.facing + MulFrac(((p1.facing - p0.facing + 1800) % 3600) - 1800,
                                    num, den))

\* the poses kf_list has at the beat b: those of its frame at b, otherwise those
\* between the two frames around b
PosesAt(kf_list, b) ==
    IF ExactAt(kf_list, b) # {}
    THEN kf_list[CHOOSE k \in ExactAt(kf_list, b) : TRUE].dancers
    ELSE LET k == CHOOSE j \in BracketAt(kf_list, b) : TRUE
         IN  [d \in DancerID |->
                 PoseBetween(kf_list[k].dancers[d], kf_list[k + 1].dancers[d],
                             b - kf_list[k].beat, kf_list[k + 1].beat - kf_list[k].beat)]

\* the input whose pose of d is kept: the last that is authoritative for d,
\* the first when none is
Owner(d) ==
    IF \E i \in 1..Len(arg.lists) : d \in arg.lists[i][2]
    THEN CHOOSE i \in 1..Len(arg.lists) :
             /\ d \in arg.lists[i][2]
             /\ \A j \in 1..Len(arg.lists) : d \in arg.lists[j][2] => j <= i
    ELSE 1

\* C7: merging two inputs over the same beat range gives every agent, in every
\* merged frame, the pose that its authoritative input has at that beat (exact
\* or interpolated); the later input when both are authoritative, the first
\* input when none is.
C7_AuthoritativePoses ==
    (MergeDone /\ Len(arg.lists) = 2 /\ InputsAligned) =>
        \A m \in 1..Len(res[1]) : \A d \in DancerID :
            /\ ExactAt(arg.lists[Owner(d)][1], res[1][m].beat)
                 \cup BracketAt(arg.lists[Owner(d)][1], res[1][m].beat) # {}
            /\ res[1][m].dancers[d] = PosesAt(arg.lists[Owner(d)][1], res[1][m].beat)[d]

\* two inputs with disjoint authoritative pairs on different grids were merged
C7_Witness ==
    /\ MergeDone /\ Len(arg.lists) = 2 /\ InputsAligned
    /\ arg.lists[1][2] \cap arg.lists[2][2] = {}
    /\ Cardinality(arg.lists[1][2]) = 2 /\ Cardinality(arg.lists[2][2]) = 2
    /\ \E m \in 1..Len(res[1]) : ExactAt(arg.lists[1][1], res[1][m].beat) = {}
    /\ \E m \in 1..Len(res[1]) : ExactAt(arg.lists[2][1], res[1][m].beat) = {}

\* inputs of which both are authoritative for one agent and none for another
C7_WitnessOverlap ==
    /\ MergeDone /\ Len(arg.lists) = 2 /\ InputsAligned
    /\ arg.lists[1][2] \cap arg.lists[2][2] # {}
    /\ arg.lists[1][2] \cup arg.lists[2][2] # DancerID

\* the rounded beats of all inputs
InputBeats ==
    UNION {{Round6(arg.lists[i][1][j].beat) : j \in 1..Len(arg.lists[i][1])} :
           i \in 1..Len(arg.lists)}

\* C8: merging two or more aligned inputs gives one frame per distinct rounded
\* beat of the inputs, in increasing order; at each of these beats an input has
\* a frame, or the binary search ends on the two consecutive frames that bracket
\* the beat and the input's pose is interpolated between these two.
C8_OneFramePerBeat ==
    (MergeDone /\ Len(arg.lists) >= 2 /\ InputsAligned) =>
        /\ StrictlyIncreasing(res[1])
        /\ {res[1][m].beat : m \in 1..Len(res[1])} = InputBeats
        /\ \A b \in InputBeats : \A i \in 1..Len(arg.lists) :
               /\ \/ ExactAt(arg.lists[i][1], b) # {}
                  \/ \E k \in BracketAt(arg.lists[i][1], b) :
                         BinarySearch(arg.lists[i][1], b, 1, Len(arg.lists[i][1]))
                           = <<k, k + 1>>
               /\ find_frame(b, arg.lists[i][1])[1].dancers = PosesAt(arg.lists[i][1], b)

\* aligned inputs were merged of which one had no frame at a beat of another
C8_Witness ==
    /\ MergeDone /\ Len(arg.lists) >= 2 /\ InputsAligned
    /\ \E b \in InputBeats : \E i \in 1..Len(arg.lists) :
           /\ ExactAt(arg.lists[i][1], b) = {}
           /\ Len(arg.lists[i][1]) >= 3

\* C9: merging a single (sequence, authoritative set) gives the sequence itself,
\* and merging no input gives the empty sequence.
C9_SingleInputUnchanged ==
    (arg.fn = "merge" /\ res # <<>>) =>
        /\ Len(arg.lists) = 1 => res[1] = arg.lists[1][1]
        /\ arg.lists = <<>> => res[1] = <<>>

\* a single sequence with repeated beats was handed over and came back
C9_Witness ==
    /\ MergeDone /\ Len(arg.lists) = 1
    /\ ~StrictlyIncreasing(arg.lists[1][1])
    /\ res[1] # <<>>

\* the hand connections of all inputs at the beat b, inputs in list order
RECURSIVE HandsAt(_, _)
HandsAt(i, b) ==
    IF i > Len(arg.lists) THEN <<>>
    ELSE find_frame(b, arg.lists[i][1])[1].hands \o HandsAt(i + 1, b)

\* the index of the first connection of hands with the key of h
FirstAt(hands, h) ==
    CHOOSE k \in 1..Len(hands) :
        /\ HandKey(hands[k]) = HandKey(h)
        /\ \A j \in 1..(k - 1) : HandKey(hands[j]) # HandKey(h)

\* links holds the connections of hands once each, in the order of their first
\* occurrence
FirstOccurrences(links, hands) ==
    /\ {links[k] : k \in 1..Len(links)} = {hands[k] : k \in 1..Len(hands)}
    /\ \A p, q \in 1..Len(links) :
           p < q => /\ HandKey(links[p]) # HandKey(links[q])
                    /\ FirstAt(hands, links[p]) < FirstAt(hands, links[q])

\* C10: in every frame merged from two or more inputs the hand connections are
\* those that the inputs have at that beat, each key once, in the order of first
\* occurrence.
C10_HandsUnion ==
    (MergeDone /\ Len(arg.lists) >= 2) =>
        \A m \in 1..Len(res[1]) :
            FirstOccurrences(res[1][m].hands, HandsAt(1, res[1][m].beat))

\* a merged frame with several connections, one of them given by two inputs
C10_Witness ==
    /\ MergeDone /\ Len(arg.lists) >= 2
    /\ \E m \in 1..Len(res[1]) :
           /\ Len(res[1][m].hands) >= 2
           /\ Len(HandsAt(1, res[1][m].beat)) > Len(res[1][m].hands)
----------------------------------------------------------------------------
(* Properties of the calls run_pipeline makes                              *)

\* run_pipeline is at an invocation of the list (before its first call or
\* inside its per-pair loop)
AtInvocation == pc \in {"loop", "pairs"} /\ gi <= Len(groups) /\ ci <= Len(groups[gi])

\* the set of the dancers of a participant list
AsSet(dids) == {dids[k] : k \in 1..Len(dids)}

\* concurrent_results' is concurrent_results with the keyframes of the call just
\* made, when there are any, under the authoritative set authoritative
Accumulated(authoritative) ==
    concurrent_results' =
        IF last_call'.result[1].keyframes # <<>>
        THEN Append(concurrent_results, <<last_call'.result[1].keyframes, authoritative>>)
        ELSE concurrent_results

\* C11: for an invocation with a registered name and at least one resolved pair
\* the generator is first called once with the flattened pairs; if and only if
\* that call returns a warning mentioning "participants" the generator is then
\* called once per pair, in resolved order, and each pair result with keyframes
\* is accumulated under exactly that pair; otherwise no further call is made and
\* the result is accumulated under all flattened participants.
C11_OneCallThenPerPair ==
    [][/\ (AtInvocation /\ pc = "loop" /\ Registered(fc.name) /\ participant_pairs # <<>>) =>
              /\ last_call'.pos = <<gi, ci, 0>>
              /\ last_call'.participants = Flatten(participant_pairs)
              /\ IF CountRejected(last_call'.result[1])
                 THEN /\ last_call'.kind = "rejected"
                      /\ pc' = "pairs" /\ pi' = 1 /\ ci' = ci
                      /\ concurrent_results' = concurrent_results
                 ELSE /\ last_call'.kind = "all"
                      /\ pc' = "loop" /\ ci' = ci + 1
                      /\ Accumulated(AsSet(Flatten(participant_pairs)))
       /\ (AtInvocation /\ pc = "pairs") =>
              /\ last_call.pos = <<gi, ci, pi - 1>>
              /\ last_call'.kind = "pair"
              /\ last_call'.pos = <<gi, ci, pi>>
              /\ last_call'.participants = participant_pairs[pi]
              /\ Accumulated({participant_pairs[pi][1], participant_pairs[pi][2]})
              /\ IF pi < Len(participant_pairs)
                 THEN pc' = "pairs" /\ pi' = pi + 1 /\ ci' = ci
                 ELSE pc' = "loop" /\ ci' = ci + 1
       /\ last_call' # last_call =>
              /\ AtInvocation
              /\ Registered(fc.name)
              /\ participant_pairs # <<>>
      ]_vars

\* the per-pair calls of a rejected two-pair invocation have both been made and
\* their keyframes accumulated under the two pairs
C11_Witness ==
    /\ pc = "loop"
    /\ last_call.kind = "pair"
    /\ last_call.pos[3] = 2
    /\ Len(concurrent_results) >= 2
    /\ concurrent_results[Len(concurrent_results)][2] = AsSet(last_call.participants)
    /\ Cardinality(concurrent_results[Len(concurrent_results) - 1][2]) = 2

\* a reference the resolver does not recognise
Unrecognised(ref) == LowerStrip(ref) \notin KnownGroups \cup {"all", "everyone"}

\* C14: for an invocation (of a registered move) whose participant list holds a
\* reference the resolver does not recognise, alone or next to recognised ones,
\* run_pipeline appends a warning about the unresolved participants, calls no
\* generator and leaves the running poses as they are.
C14_UnrecognisedTokenSkips ==
    [][(/\ AtInvocation
        /\ Registered(fc.name)
        /\ \E k \in 1..Len(fc.participants) : Unrecognised(fc.participants[k])) =>
              /\ last_call' = last_call
              /\ state' = state
              /\ concurrent_results' = concurrent_results
              /\ Len(all_warnings') = Len(all_warnings) + 1
              /\ all_warnings'[Len(all_warnings')][3] = "resolve"
              /\ ci' = ci + 1
      ]_vars

\* C15: for an invocation whose name is not registered run_pipeline appends
\* exactly one warning naming the move, calls no generator, adds no keyframes and
\* leaves the running snapshot as it is; it goes on with the next invocation of
\* the group, and ends only after the last group.
C15_UnknownFigureSkipped ==
    [][/\ (AtInvocation /\ ~Registered(fc.name)) =>
              /\ all_warnings' = Append(all_warnings, <<"Unknown", "figure:", fc.name>>)
              /\ last_call' = last_call
              /\ state' = state
              /\ concurrent_results' = concurrent_results
              /\ all_keyframes' = all_keyframes
              /\ ci' = ci + 1 /\ gi' = gi /\ pc' = "loop"
       /\ pc' # pc /\ pc' = "done" => gi > Len(groups)
       /\ gi' # gi => gi' = gi + 1 /\ ci > Len(groups[gi])
      ]_vars

\* an invocation with an unknown name was skipped and the next invocation of the
\* same group was executed
C15_Witness ==
    /\ last_call.kind = "all"
    /\ last_call.pos[2] = 2
    /\ last_call.result[1].keyframes # <<>>
    /\ all_warnings # <<>>
    /\ all_warnings[1][1] = "Unknown"
    /\ ~Registered(groups[last_call.pos[1]][1].name)
----------------------------------------------------------------------------
(* Single calls of the figure generators, of the participant resolver, of  *)
(* the DancerID relations and of _group_concurrent                         *)

\* the longest reference list handed to _resolve_participant_pairs
MaxRefs == 2

\* the longest invocation list handed to _group_concurrent
MaxGroup == 4

GenArg(fn, st, call, refs, participants, d, calls) ==
    [fn |-> fn, st |-> st, call |-> call, refs |-> refs, participants |-> participants,
     d |-> d, calls |-> calls]

NoFigureCall == FigureCall("", 0, 0, <<>>, NoParams)

\* the spellings of the references
RefTokens ==
    {"partners", "Partners", "partner", " neighbors ", "opposites", "larks", "robin",
     "ladles", "all", "ALL", "everyone", "bogus"}

RefLists == UNION {[1..n -> RefTokens] : n \in 0..MaxRefs}

ResolveArgs ==
    {GenArg("resolve", improper(0), NoFigureCall, refs, <<>>, "up_lark", <<>>) : refs \in RefLists}

RelationArgs ==
    {GenArg("relations", improper(0), NoFigureCall, <<>>, <<>>, d, <<>>) : d \in DancerID}

\* invocation lists over two moves and two beat ranges
GroupArgs ==
    UNION {{GenArg("group", improper(0), NoFigureCall, <<>>, <<>>, "up_lark",
                   [k \in 1..n |->
                       FigureCall(names[k], Ranges[rs[k]][1], Ranges[rs[k]][2], <<>>, NoParams)]) :
               names \in [1..n -> {"balance", "swing"}], rs \in [1..n -> 1..2]} :
           n \in 0..MaxGroup}

\* the generators, under a canonical name or an alias: <<name, params>>
Generators ==
    {<<"swing", WithParams(<<>>, <<900>>, <<<<0, 0>>>>, <<>>)>>,
     <<"do_si_do", NoParams>>, <<"box_the_gnat", NoParams>>, <<"balance", NoParams>>,
     <<"allemande_left", NoParams>>, <<"pull_by_r", NoParams>>,
     <<"petronella", NoParams>>, <<"circle_left", NoParams>>, <<"circle_r", NoParams>>,
     <<"star_left", NoParams>>, <<"right_hand_star", NoParams>>, <<"chain", NoParams>>}

\* the reference lists the generators are called for, as run_pipeline calls
\* them first: with the flattened resolved pairs
GeneratorRefs ==
    {<<"partners">>, <<"neighbors">>, <<"opposites">>, <<"all">>, <<"everyone">>,
     <<"larks">>, <<"robins">>, <<"larks", "robins">>}

\* participant lists of other lengths, and one pair as the per-pair loop passes it
OtherParticipants ==
    {<<>>, <<"up_robin">>, <<"up_lark", "down_robin">>,
     <<"up_lark", "up_robin", "down_lark">>}

GeneratorArgs ==
    {GenArg("figure", make_formation(f),
            FigureCall(g[1], range[1], range[2], refs, g[2]), refs,
            Flatten(resolve_participant_pairs(refs)), "up_lark", <<>>) :
        f \in Formation, g \in Generators, refs \in GeneratorRefs,
        range \in {<<0, 1500000>>, <<1500000, 3750000>>}}
      \cup
    {GenArg("figure", make_formation(f),
            FigureCall(g[1], 0, 1500000, <<>>, g[2]), <<>>, participants, "up_lark", <<>>) :
        f \in Formation, g \in Generators, participants \in OtherParticipants}

\* swing over half a beat, two beats and eight beats, with and without revolutions
SwingArgs ==
    {GenArg("swing", make_formation(f),
            FigureCall("swing", 0, beat_end, <<>>,
                       WithParams(<<>>, <<target_facing>>, <<end_center>>, revolutions)),
            <<>>, participants, "up_lark", <<>>) :
        f \in Formation, beat_end \in {1500000, 6000000, 24000000},
        target_facing \in {900, 1800}, end_center \in {<<0, 0>>, <<0, 500>>},
        revolutions \in {<<>>, <<2500>>, <<10000>>}, participants \in Couples}

InitGen ==
    /\ arg \in ResolveArgs \cup RelationArgs \cup GroupArgs \cup GeneratorArgs \cup SwingArgs
    /\ res = <<>>
    /\ IdlePipeline

\* fig_func(ctx), as run_pipeline calls it: the result, and the object handed in
\* as start_state as it is after the call
CallGenerator ==
    /\ res = <<>>
    /\ arg.fn = "figure"
    /\ LET returned(ctx, result) == res' = <<result, start_state_after(ctx, result)>>
           called(ctx) == returned(ctx, CallFigure(ctx))
       IN  called(FigureContext(arg.call, arg.st, arg.participants))
    /\ UNCHANGED <<arg, pvars>>

\* swing(ctx): the result together with the local variable revolutions
CallSwing ==
    /\ res = <<>>
    /\ arg.fn = "swing"
    /\ LET called(ctx) ==
               res' = <<[result |-> swing(ctx),
                         revolutions |-> swing_revolutions(ctx, swing_desired(ctx))]>>
       IN  called(FigureContext(arg.call, arg.st, arg.participants))
    /\ UNCHANGED <<arg, pvars>>

CallResolve ==
    /\ res = <<>>
    /\ arg.fn = "resolve"
    /\ res' = <<resolve_participant_pairs(arg.refs)>>
    /\ UNCHANGED <<arg, pvars>>

\* the properties of one DancerID
CallRelations ==
    /\ res = <<>>
    /\ arg.fn = "relations"
    /\ res' = <<[partner |-> partner(arg.d), neighbor |-> neighbor(arg.d),
                 opposite |-> opposite(arg.d), is_lark |-> is_lark(arg.d),
                 is_up |-> is_up(arg.d)]>>
    /\ UNCHANGED <<arg, pvars>>

CallGroupConcurrent ==
    /\ res = <<>>
    /\ arg.fn = "group"
    /\ res' = <<group_concurrent(arg.calls)>>
    /\ UNCHANGED <<arg, pvars>>

NextGen ==
    \/ CallGenerator
    \/ CallSwing
    \/ CallResolve
    \/ CallRelations
    \/ CallGroupConcurrent

SpecGen == InitGen /\ [][NextGen]_vars
----------------------------------------------------------------------------
(* Properties of the figure generators                                     *)

GeneratorDone == arg.fn = "figure" /\ res # <<>>

RingMoves == {"circle_left", "circle_right", "star_left", "star_right", "petronella"}

\* the references that resolve to all four dancers
AllFourRefs == {"partners", "neighbors", "opposites", "all", "everyone"}

\* C12: a ring move (circle_left, circle_right, star_left, star_right,
\* petronella) called, as run_pipeline first calls it, with the flattened pairs
\* of a reference that resolves to all four dancers (partners, neighbors,
\* opposites, all, everyone) does not reject the participant count, so that no
\* per-pair fallback follows, and returns one keyframe sequence in which all four
\* dancers move.
C12_RingMovesAcceptAllFour ==
    (/\ GeneratorDone
     /\ Canonical(arg.call.name) \in RingMoves
     /\ Len(arg.refs) = 1
     /\ arg.refs[1] \in AllFourRefs) =>
        /\ ~CountRejected(res[1])
        /\ res[1].keyframes # <<>>
        /\ \A d \in DancerID :
               \E k \in 1..Len(res[1].keyframes) :
                   res[1].keyframes[k].dancers[d] # arg.st.dancers[d]

\* the generator f is given a number of participants it does not accept
WrongCount(f, participants) ==
    CASE f \in {"swing", "do_si_do", "box_the_gnat", "allemande_right", "allemande_left",
                "pull_by_right", "pull_by_left"} -> Len(participants) # 2
      [] f = "petronella" -> Len(participants) # 4
      [] f \in {"circle_left", "circle_right", "star_left", "star_right"} ->
             Len(participants) < 2
      [] f = "robins_chain" ->
             \/ Len(SelectSeq(participants, is_robin)) # 2
             \/ Len(SelectSeq(participants, is_lark)) # 2
      [] OTHER -> FALSE

\* C13: every generator that rejects its participants because of their number
\* (swing, do_si_do, box_the_gnat, allemande, pull_by, petronella, circle, star,
\* robins_chain) returns no keyframes, an end_state with the poses of the start
\* snapshot, and a warning that mentions "participants", the trigger of the
\* per-pair fallback.
C13_CountRejectionMentionsParticipants ==
    (GeneratorDone /\ WrongCount(Canonical(arg.call.name), arg.participants)) =>
        /\ res[1].keyframes = <<>>
        /\ res[1].end_state.dancers = arg.st.dancers
        /\ res[1].warnings # <<>>
        /\ CountRejected(res[1])

\* C16: no generator (and no primitive it calls) modifies the snapshot it is
\* given as start state: when the call has returned, also with a rejection,
\* the beat, the pose of every dancer and the hand connections of that snapshot
\* are what they were before the call.
C16_StartStateUntouched ==
    GeneratorDone =>
        /\ res[2].beat = arg.st.beat
        /\ \A d \in DancerID : res[2].dancers[d] = arg.st.dancers[d]
        /\ res[2].hands = arg.st.hands

\* a generator has returned an end_state that differs from the snapshot it was
\* given in the beat and in the poses of all four dancers
C16_Witness ==
    /\ GeneratorDone
    /\ res[1].keyframes # <<>>
    /\ res[1].end_state.beat # arg.st.beat
    /\ \A d \in DancerID : res[1].end_state.dancers[d] # arg.st.dancers[d]
    /\ res[2] = arg.st
----------------------------------------------------------------------------
(* Properties of the DancerID relations, of the resolver and of            *)
(* _group_concurrent                                                       *)

RelationsDone == arg.fn = "relations" /\ res # <<>>

\* C17: for each dancer, partner, neighbor and opposite are pairwise distinct,
\* none is the dancer itself and together they are the other three dancers; each
\* relation is an involution; the partner has the same side (up or down) and the
\* other role, the neighbor the other side and the other role, the opposite the
\* other side and the same role.
C17_RelationsBijection ==
    RelationsDone =>
        /\ res[1].partner # res[1].neighbor
        /\ res[1].partner # res[1].opposite
        /\ res[1].neighbor # res[1].opposite
        /\ arg.d \notin {res[1].partner, res[1].neighbor, res[1].opposite}
        /\ {res[1].partner, res[1].neighbor, res[1].opposite} = DancerID \ {arg.d}
        /\ partner(res[1].partner) = arg.d
        /\ neighbor(res[1].neighbor) = arg.d
        /\ opposite(res[1].opposite) = arg.d
        /\ is_up(res[1].partner) = res[1].is_up /\ is_lark(res[1].partner) # res[1].is_lark
        /\ is_up(res[1].neighbor) # res[1].is_up /\ is_lark(res[1].neighbor) # res[1].is_lark
        /\ is_up(res[1].opposite) # res[1].is_up /\ is_lark(res[1].opposite) = res[1].is_lark

\* the relations of down_robin have been computed
C17_Witness ==
    /\ RelationsDone
    /\ arg.d = "down_robin"
    /\ res[1] = [partner |-> "down_lark", neighbor |-> "up_lark", opposite |-> "up_robin",
                 is_lark |-> FALSE, is_up |-> FALSE]

ResolveDone == arg.fn = "resolve" /\ res # <<>>

\* the pairs cover all four dancers, each exactly once
CoverOnce(pairs) ==
    /\ Len(pairs) = 2
    /\ {pairs[1][1], pairs[1][2], pairs[2][1], pairs[2][2]} = DancerID

\* what the claim says of a single reference t and its pairs
TokenFacts(t, pairs) ==
    CASE t \in {"partner", "partners"} ->
             CoverOnce(pairs) /\ \A k \in 1..2 : pairs[k][2] = partner(pairs[k][1])
      [] t \in {"neighbor", "neighbors"} ->
             CoverOnce(pairs) /\ \A k \in 1..2 : pairs[k][2] = neighbor(pairs[k][1])
      [] t \in {"opposite", "opposites"} ->
             CoverOnce(pairs) /\ \A k \in 1..2 : pairs[k][2] = opposite(pairs[k][1])
      [] t \in {"lark", "larks"} ->
             Len(pairs) = 1 /\ {pairs[1][1], pairs[1][2]} = {d \in DancerID : is_lark(d)}
      [] t \in {"robin", "robins"} ->
             Len(pairs) = 1 /\ {pairs[1][1], pairs[1][2]} = {d \in DancerID : is_robin(d)}
      [] t \in {"all", "everyone"} -> Len(pairs) = 4
      [] OTHER -> TRUE

\* the pairs of the references, one reference after the other
RECURSIVE PairsInTurn(_)
PairsInTurn(refs) ==
    IF refs = <<>> THEN <<>>
    ELSE resolve_participant_pairs(<<Head(refs)>>) \o PairsInTurn(Tail(refs))

\* s without the repetitions: every element at its first occurrence
FirstOccurrencesOf(s) ==
    SelectSeq([k \in 1..Len(s) |-> <<s[k], \A j \in 1..(k - 1) : s[j] # s[k]>>],
              LAMBDA e : e[2])

\* C18: a single reference resolves as its token says, whatever its case and
\* surrounding blanks (partners, neighbors and opposites to two pairs of that
\* relation covering the four dancers once, larks and robins to the one pair of
\* that role, all and everyone to four pairs), and a list of references
\* resolves to the pairs of its references in the order of their first
\* occurrence, without duplicates.
C18_FirstOccurrenceOrder ==
    ResolveDone =>
        /\ Len(arg.refs) = 1 => TokenFacts(LowerStrip(arg.refs[1]), res[1])
        /\ \A i, j \in 1..Len(res[1]) : i # j => res[1][i] # res[1][j]
        /\ [k \in 1..Len(res[1]) |-> <<res[1][k], TRUE>>]
             = FirstOccurrencesOf(PairsInTurn(arg.refs))

GroupDone == arg.fn = "group" /\ res # <<>>

RangeOf(call) == <<call.beat_start, call.beat_end>>

\* C19: _group_concurrent splits the invocation list, keeping its order, into
\* maximal runs of consecutive invocations of one (beat_start, beat_end):
\* the groups concatenated are the list, no group is empty, the members of a
\* group have one range and adjacent groups have different ranges; invocations
\* of one range that are not adjacent in the list are in different groups.
C19_MaximalRuns ==
    GroupDone =>
        /\ Flatten(res[1]) = arg.calls
        /\ \A g \in 1..Len(res[1]) :
               /\ res[1][g] # <<>>
               /\ \A k \in 1..Len(res[1][g]) : RangeOf(res[1][g][k]) = RangeOf(res[1][g][1])
        /\ \A g \in 1..(Len(res[1]) - 1) :
               RangeOf(res[1][g][1]) # RangeOf(res[1][g + 1][1])

\* two invocations of a range, one of another and one of the first range again
\* have been split into three groups
C19_Witness ==
    /\ GroupDone
    /\ Len(arg.calls) = 4
    /\ RangeOf(arg.calls[1]) = RangeOf(arg.calls[2])
    /\ RangeOf(arg.calls[3]) # RangeOf(arg.calls[1])
    /\ RangeOf(arg.calls[4]) = RangeOf(arg.calls[1])
    /\ Len(res[1]) = 3
    /\ Len(res[1][1]) = 2
----------------------------------------------------------------------------
(* Properties of the revolution count of swing                             *)

SwingDone == arg.fn = "swing" /\ res # <<>>

\* duration / 4.0, in 1/10000 of a revolution
Naive == RDiv(arg.call.beat_end - arg.call.beat_start, 1200)

\* the error of the candidate of offset k hundredths
ErrorOf(k) ==
    end_state_error(
        orbit_end_positions(arg.participants[1], arg.participants[2], arg.st,
                            Naive + 100 * k, 150),
        swing_desired(FigureContext(arg.call, arg.st, arg.participants)))

\* C20: when revolutions is not supplied (and the duration is positive) the
\* revolution count swing orbits by is one of the 101 candidates
\* naive + k / 100, k in -50..50, naive = duration / 4, it is at least 0.5 and no
\* candidate that is at least 0.5 has a smaller summed squared endpoint error;
\* for a duration of 8 beats it lies in [1.5, 2.5].  When revolutions is
\* supplied, the orbit is made with exactly the supplied count.
C20_RevolutionsSearch ==
    SwingDone =>
        /\ arg.call.params.revolutions = <<>> =>
               /\ \E k \in -50..50 :
                      /\ res[1].revolutions = Naive + 100 * k
                      /\ \A j \in -50..50 :
                             Naive + 100 * j >= 5000 => ErrorOf(k) <= ErrorOf(j)
               /\ res[1].revolutions >= 5000
               /\ arg.call.beat_end - arg.call.beat_start = 8 * 3000000 =>
                      res[1].revolutions \in 15000..25000
        /\ arg.call.params.revolutions # <<>> =>
               res[1].revolutions = arg.call.params.revolutions[1]
        /\ LET same(frames) ==
                   /\ Len(frames) = Len(res[1].result.keyframes)
                   /\ \A k \in 1..(Len(frames) - 1) : frames[k] = res[1].result.keyframes[k]
           IN  same(orbit(arg.st, arg.participants, res[1].revolutions, arg.call.beat_start,
                          arg.call.beat_end, BeatsPerFrame, 150,
                          res[1].result.keyframes[1].hands))

\* a search over half a beat, where candidates below 0.5 are skipped, and whose
\* result is not the naive count
C20_Witness ==
    /\ SwingDone
    /\ arg.call.params.revolutions = <<>>
    /\ arg.call.beat_end = 1500000
    /\ Naive - 5000 < 5000
    /\ res[1].revolutions # Naive
    /\ res[1].revolutions > 5000
----------------------------------------------------------------------------
(* The endpoint of swing                                                   *)

\* the swing produced frames
SwingFrames == SwingDone /\ res[1].result.keyframes # <<>>

\* the point half a unit to the left (side = 1) or to the right (side = -1) of
\* end_center, seen along target_facing: the left of the direction
\* (sin f, cos f) is (-cos f, sin f)
SideOf(side) ==
    DancerState(
        arg.call.params.end_center[1][1]
          + side * RDiv(-Cos(arg.call.params.target_facing[1]) * 500, 10000),
        arg.call.params.end_center[1][2]
          + side * RDiv(Sin(arg.call.params.target_facing[1]) * 500, 10000),
        arg.call.params.target_facing[1])

\* the pose claimed for the participant k: a lark dancing with a robin is on the
\* left and the robin on the right; of two dancers of the same role the code takes
\* the first for the lark when they are larks and the second when they are robins
ClaimedPose(k) ==
    IF is_lark(arg.participants[k]) # is_lark(arg.participants[3 - k])
    THEN SideOf(IF is_lark(arg.participants[k]) THEN 1 ELSE -1)
    ELSE SideOf(IF (k = 1) = is_lark(arg.participants[1]) THEN 1 ELSE -1)

\* C21: for every swing that produces frames, whatever the revolution count, the
\* poses of the two participants in the last keyframe are the desired analytic
\* endpoint: end_center plus 0.5 along the left perpendicular of target_facing for
\* the lark and minus 0.5 for the robin, both facing target_facing; the reported
\* end_state holds the same two poses and the beat beat_end.
C21_LastFrameSnapped ==
    SwingFrames =>
        /\ \A k \in 1..2 :
               /\ res[1].result.keyframes[Len(res[1].result.keyframes)]
                      .dancers[arg.participants[k]] = ClaimedPose(k)
               /\ res[1].result.end_state.dancers[arg.participants[k]] = ClaimedPose(k)
        /\ res[1].result.end_state.beat = arg.call.beat_end

\* a swing of a lark and a robin whose orbit, at a searched revolution count, does
\* not end on the desired endpoint by itself
C21_Witness ==
    /\ SwingFrames
    /\ arg.call.params.revolutions = <<>>
    /\ is_lark(arg.participants[1]) /\ is_robin(arg.participants[2])
    /\ LET unsnapped(frames) ==
               frames[Len(frames)].dancers[arg.participants[1]] # ClaimedPose(1)
       IN  unsnapped(orbit(arg.st, arg.participants, res[1].revolutions,
                           arg.call.beat_start, arg.call.beat_end, BeatsPerFrame, 150,
                           <<>>))
----------------------------------------------------------------------------
(* The frames of the primitives                                            *)

\* C22: a primitive called on the beat range [b0, b1] with the step d returns
\* floor((b1 - b0) / d) + 1 keyframes, and 2 when the range is shorter than one
\* step; the first keyframe has the beat b0, the last one the beat b1, and the
\* beats are evenly spaced in between.
C22_FrameCount ==
    PrimitiveDone =>
        /\ Len(res[1]) = Max(2, ((arg.range[2] - arg.range[1]) \div BeatsPerFrame) + 1)
        /\ res[1][1].beat = arg.range[1]
        /\ res[1][Len(res[1])].beat = arg.range[2]
        /\ \A k \in 1..(Len(res[1]) - 1) :
               (res[1][k + 1].beat - res[1][k].beat) * (Len(res[1]) - 1)
                   = arg.range[2] - arg.range[1]

\* a range shorter than one step has given two keyframes
C22_Witness ==
    /\ PrimitiveDone
    /\ arg.range[2] - arg.range[1] < BeatsPerFrame
    /\ Len(res[1]) = 2

\* a range of two steps and a half has given three keyframes
C22_WitnessFloor ==
    /\ PrimitiveDone
    /\ (arg.range[2] - arg.range[1]) % BeatsPerFrame # 0
    /\ Len(res[1]) = 3

\* C23: every keyframe of circular_arc, linear and orbit maps all four agents, and
\* in every frame each agent that is not a listed participant (or target) has the
\* x, y and facing of the input snapshot; in the maintain-facing mode of
\* circular_arc the facing of the participants too is the start value in every
\* frame.
C23_OthersPassThrough ==
    PrimitiveDone =>
        \A k \in 1..Len(res[1]) :
            /\ DOMAIN res[1][k].dancers = DancerID
            /\ \A d \in DancerID \ Moving :
                   /\ res[1][k].dancers[d].x = arg.st.dancers[d].x
                   /\ res[1][k].dancers[d].y = arg.st.dancers[d].y
                   /\ res[1][k].dancers[d].facing = arg.st.dancers[d].facing
            /\ (arg.fn = "circular_arc" /\ ~arg.face_center) =>
                   \A d \in Moving : res[1][k].dancers[d].facing = arg.st.dancers[d].facing

\* a primitive has moved two agents away from their places in a later frame and
\* left two agents out of the list
C23_Witness ==
    /\ PrimitiveDone
    /\ Cardinality(Moving) = 2
    /\ \E k \in 2..Len(res[1]) : \A d \in Moving :
           <<res[1][k].dancers[d].x, res[1][k].dancers[d].y>>
               # <<arg.st.dancers[d].x, arg.st.dancers[d].y>>

\* circular_arc has moved agents in the maintain-facing mode
C23_WitnessMaintain ==
    /\ PrimitiveDone
    /\ arg.fn = "circular_arc" /\ ~arg.face_center
    /\ \E d \in Moving : res[1][Len(res[1])].dancers[d].x # arg.st.dancers[d].x
----------------------------------------------------------------------------
(* The facing of linear                                                    *)

LinearDone == arg.fn = "linear" /\ res # <<>>

\* the start facing of the moving dancer d and the facing of its target
StartFacing(d) == arg.st.dancers[d].facing

TargetFacing(d) ==
    arg.targets[CHOOSE k \in 1..Len(arg.participants) : arg.participants[k] = d].facing

\* the signed change ((g - s + 180) mod 360) - 180
SignedChange(s, g) == ((g - s + 1800) % 3600) - 1800

\* C24: in linear, for every start facing s and target facing g in [0, 360), the
\* facing travels along the shorter arc: the signed total change is
\* ((g - s + 180) mod 360) - 180, of magnitude at most 180; the facing of each
\* frame is s plus the eased fraction of that change, wrapped to [0, 360); and
\* from 350 to 10 the facing passes through 360/0 over 20 degrees (every frame
\* within 350..360 or 0..10) and never through 180.
C24_ShorterArc ==
    LinearDone =>
        \A d \in Moving :
            (StartFacing(d) \in 0..3599 /\ TargetFacing(d) \in 0..3599) =>
                /\ Abs(SignedChange(StartFacing(d), TargetFacing(d))) <= 1800
                /\ (StartFacing(d) + SignedChange(StartFacing(d), TargetFacing(d))) % 3600
                       = TargetFacing(d)
                /\ \A k \in 1..Len(res[1]) :
                       /\ res[1][k].dancers[d].facing \in 0..3599
                       /\ res[1][k].dancers[d].facing =
                              (StartFacing(d)
                                 + RDiv(SignedChange(StartFacing(d), TargetFacing(d))
                                          * ease_in_out(k - 1, Len(res[1]) - 1), 20000))
                                % 3600
                       /\ (StartFacing(d) = 3500 /\ TargetFacing(d) = 100) =>
                              res[1][k].dancers[d].facing \in (3500..3599) \cup (0..100)
                /\ res[1][1].dancers[d].facing = StartFacing(d)
                /\ res[1][Len(res[1])].dancers[d].facing = TargetFacing(d)

\* linear has turned a dancer from 350 to 10 and a frame in between faces 0
C24_Witness ==
    /\ LinearDone
    /\ \E d \in Moving :
           /\ StartFacing(d) = 3500 /\ TargetFacing(d) = 100
           /\ \E k \in 2..(Len(res[1]) - 1) : res[1][k].dancers[d].facing = 0
----------------------------------------------------------------------------
(* The radius of orbit                                                     *)

OrbitDone == arg.fn = "orbit" /\ res # <<>>

\* half the distance between the two participants in the snapshot
HalfSeparation ==
    RDiv(hypot(arg.st.dancers[arg.participants[1]].x - arg.st.dancers[arg.participants[2]].x,
               arg.st.dancers[arg.participants[1]].y - arg.st.dancers[arg.participants[2]].y),
         2)

\* the distance of the participant j from the shared midpoint in the frame k
DistanceAt(k, j) ==
    hypot(res[1][k].dancers[arg.participants[j]].x - Pivot[1],
          res[1][k].dancers[arg.participants[j]].y - Pivot[2])

\* the radius claimed at t = i / n
ClaimedRadius(i, n) ==
    IF i = 0 \/ i = n THEN HalfSeparation
    ELSE IF 10 * i < n
    THEN HalfSeparation + RDiv((arg.closing_distance - HalfSeparation) * 10 * i, n)
    ELSE IF 10 * i > 9 * n
    THEN arg.closing_distance
           + RDiv((HalfSeparation - arg.closing_distance) * (10 * i - 9 * n), n)
    ELSE arg.closing_distance

\* C25: in orbit the distance of each of the two participants from their shared
\* midpoint at t = i / n is the initial half-separation at t = 0, changes linearly
\* from it to closing_distance over [0, 0.1), is closing_distance on [0.1, 0.9],
\* changes linearly back over (0.9, 1] and is the initial half-separation again at
\* t = 1 (positions are kept to 1/1000, so distances agree to 2/1000); the two
\* participants are at the same distance in every frame.
C25_OrbitRadius ==
    OrbitDone =>
        \A k \in 1..Len(res[1]) :
            /\ \A j \in 1..2 :
                   Abs(DistanceAt(k, j) - ClaimedRadius(k - 1, Len(res[1]) - 1)) <= 2
            /\ Abs(DistanceAt(k, 1) - DistanceAt(k, 2)) <= 2

\* an orbit of 32 steps: closing in the second frame, closed in the middle, open
\* again at the end
C25_Witness ==
    /\ OrbitDone
    /\ Len(res[1]) = 33
    /\ arg.closing_distance = 150
    /\ DistanceAt(2, 1) > 160 /\ DistanceAt(2, 1) < HalfSeparation - 10
    /\ Abs(DistanceAt(17, 1) - 150) <= 2
    /\ DistanceAt(31, 1) > 160 /\ DistanceAt(31, 1) < HalfSeparation - 10
    /\ Abs(DistanceAt(33, 1) - HalfSeparation) <= 2
----------------------------------------------------------------------------
(* Single calls of the sanity checks                                       *)

\* the longest keyframe list handed to check_speed and check_spin
MaxFrames == 3

\* round(v, ndigits) of v = n / (unit * 10^ndigits), in 1 / 10^ndigits: to the
\* nearest, a tie to the even neighbour
RoundHalfEven(n, unit) ==
    IF 2 * (n % unit) = unit
    THEN (IF (n \div unit) % 2 = 0 THEN n \div unit ELSE (n \div unit) + 1)
    ELSE RDiv(n, unit)

\* keyframes_to_json: the list json.dumps is handed.  "beat" is rounded to
\* 1/1000 beat; x, y (kept to 1/1000) and facing (kept to 1/10 degree) are
\* coarser than the 4 and 2 decimals they are rounded to
keyframes_to_json(keyframes) ==
    [k \in 1..Len(keyframes) |->
        [beat |-> RoundHalfEven(keyframes[k].beat, 3000),
         dancers |->
             [did \in DOMAIN keyframes[k].dancers |->
                 [x |-> keyframes[k].dancers[did].x,
                  y |-> keyframes[k].dancers[did].y,
                  facing |-> keyframes[k].dancers[did].facing]],
         hands |->
             [h \in 1..Len(keyframes[k].hands) |->
                 [a |-> keyframes[k].hands[h].dancer_a,
                  ha |-> keyframes[k].hands[h].hand_a,
                  b |-> keyframes[k].hands[h].dancer_b,
                  hb |-> keyframes[k].hands[h].hand_b]],
         annotation |-> keyframes[k].annotation]]

ChkArg(fn, start, end, rate, keyframes) ==
    [fn |-> fn, start |-> start, end |-> end, rate |-> rate, keyframes |-> keyframes]

\* st with the up dancers moved by up and the down dancers by down; up and down
\* are <<dx, dy>>
Displaced(st, up, down) ==
    WorldState(64 * 3000000,
        [did \in DOMAIN st.dancers |->
            DancerState(st.dancers[did].x + (IF is_up(did) THEN up[1] ELSE down[1]),
                        st.dancers[did].y + (IF is_up(did) THEN up[2] ELSE down[2]),
                        st.dancers[did].facing)],
        st.hands)

\* end snapshots around the expected displacement and around no lateral drift
ProgressionArgs ==
    {ChkArg("check_progression", make_formation(f),
            Displaced(make_formation(f), <<dx_up, rate + ey_up>>, <<dx_down, ey_down - rate>>),
            rate, <<>>) :
        f \in Formation, rate \in {1000, 500},
        ey_up \in {-1000, -151, -150, 0, 150, 151}, dx_up \in {-151, 0, 150, 151},
        ey_down \in {0, 151}, dx_down \in {0, -151}}

\* the beats of the keyframes handed to the sweeps
SweepBeats == {0, 750000, 1500000}

\* what up_lark is moved and turned by in a keyframe: <<dx, dfacing>>; at a
\* quarter of a beat 0.25 is the speed 1.0 and 45 degrees the rate 180
SweepPoses == {<<0, 0>>, <<250, 450>>, <<251, 451>>, <<2000, 1800>>}

SweepFrame(beat, pose) ==
    Keyframe(beat,
        [improper(0).dancers EXCEPT
            !["up_lark"] = DancerState(@.x + pose[1], @.y, @.facing + pose[2])],
        <<>>)

\* a keyframe list in any order of beats
SweepArg(fn, beats, poses) ==
    ChkArg(fn, improper(0), improper(0), 0,
           [k \in 1..Len(beats) |-> SweepFrame(beats[k], poses[k])])

\* the keyframes of single figures, with and without hands
JsonArgs ==
    {ChkArg("keyframes_to_json", make_formation(f), make_formation(f), 0,
            CallFigure(FigureContext(FigureCall(m[1], 0, 1500000, <<>>, m[3]),
                                     make_formation(f), m[2])).keyframes) :
        f \in Formation, m \in {MergeMoves[k] : k \in 1..Len(MergeMoves)}}

InitChk ==
    /\ \/ arg \in ProgressionArgs
       \/ arg \in JsonArgs
       \/ \E n \in 0..MaxFrames, fn \in {"check_speed", "check_spin"} :
              \E beats \in [1..n -> SweepBeats], poses \in [1..n -> SweepPoses] :
                  arg = SweepArg(fn, beats, poses)
    /\ res = <<>>
    /\ IdlePipeline

CallCheckProgression ==
    /\ res = <<>>
    /\ arg.fn = "check_progression"
    /\ res' = <<check_progression(arg.start, arg.end, arg.rate)>>
    /\ UNCHANGED <<arg, pvars>>

CallCheckSpeed ==
    /\ res = <<>>
    /\ arg.fn = "check_speed"
    /\ res' = <<check_speed(arg.keyframes)>>
    /\ UNCHANGED <<arg, pvars>>

CallCheckSpin ==
    /\ res = <<>>
    /\ arg.fn = "check_spin"
    /\ res' = <<check_spin(arg.keyframes)>>
    /\ UNCHANGED <<arg, pvars>>

CallKeyframesToJson ==
    /\ res = <<>>
    /\ arg.fn = "keyframes_to_json"
    /\ res' = <<keyframes_to_json(arg.keyframes)>>
    /\ UNCHANGED <<arg, pvars>>

NextChk ==
    \/ CallKeyframesToJson
    \/ CallCheckProgression
    \/ CallCheckSpeed
    \/ CallCheckSpin

SpecChk == InitChk /\ [][NextChk]_vars
----------------------------------------------------------------------------
(* Properties of check_progression                                         *)

ProgressionDone == arg.fn = "check_progression" /\ res # <<>>

\* the warnings about the agent d: a warning names its agent in its second word
WarningsAbout(d) == {k \in 1..Len(res[1]) : res[1][k][2] = d}

\* C26: check_progression emits a warning for an agent if and only if its net
\* longitudinal displacement differs from the expected one by more than 0.15 or
\* its lateral displacement exceeds 0.15 in magnitude; the expected displacement
\* is +rate for the up agents and -rate for the down agents.  From the improper
\* formation with rate 1.0, agents that go from y = -0.5 to +0.5 and from +0.5 to
\* -0.5 without lateral drift get no warning.
C26_ProgressionWarnings ==
    ProgressionDone =>
        /\ \A d \in DancerID :
               WarningsAbout(d) # {} <=>
                   \/ Abs((arg.end.dancers[d].y - arg.start.dancers[d].y)
                            - (IF d \in {"up_lark", "up_robin"} THEN arg.rate ELSE -arg.rate))
                        > 150
                   \/ Abs(arg.end.dancers[d].x - arg.start.dancers[d].x) > 150
        /\ \A k \in 1..Len(res[1]) : res[1][k][2] \in DancerID
        /\ (/\ arg.start = improper(0)
            /\ arg.rate = 1000
            /\ \A d \in DancerID :
                   /\ arg.start.dancers[d].y \in {-500, 500}
                   /\ arg.end.dancers[d].y = -arg.start.dancers[d].y
                   /\ arg.end.dancers[d].x = arg.start.dancers[d].x)
               => res[1] = <<>>

\* the up agents are warned about and the down agents, a full progression down
\* the set behind them, are not
C26_Witness ==
    /\ ProgressionDone
    /\ WarningsAbout("up_lark") # {} /\ WarningsAbout("up_robin") # {}
    /\ WarningsAbout("down_lark") = {} /\ WarningsAbout("down_robin") = {}
    /\ arg.end.dancers["down_lark"].y = arg.start.dancers["down_lark"].y - arg.rate

\* the scenario: improper, rate 1.0, everyone across and no warning
C26_WitnessScenario ==
    /\ ProgressionDone
    /\ arg.start = improper(0) /\ arg.rate = 1000
    /\ \A d \in DancerID : arg.end.dancers[d].y = -arg.start.dancers[d].y
    /\ \A d \in DancerID : arg.end.dancers[d].x = arg.start.dancers[d].x
    /\ res[1] = <<>>
----------------------------------------------------------------------------
(* The progression check of run_pipeline                                   *)

\* the elapsed beats of the timeline: from the first invocation's beat_start to
\* the last invocation's beat_end
Elapsed ==
    IF figure_calls = <<>> THEN 0
    ELSE figure_calls[Len(figure_calls)].beat_end - figure_calls[1].beat_start

ProgressionWarnings == SelectSeq(all_warnings, LAMBDA w : w[1] = "Progression:")

\* C27: run_pipeline evaluates the progression check if and only if the elapsed
\* beats of the timeline, from the first invocation's beat_start to the last
\* beat_end, are at least 64: the returned warnings hold the warnings of
\* check_progression in that case, and no progression warning for a timeline
\* that spans fewer than 64 beats, whatever beat it starts at.
C27_ProgressionFromElapsed ==
    pc = "done" =>
        ProgressionWarnings =
            IF Elapsed >= 64 * 3000000
            THEN check_progression(make_formation(formation), state, progression)
            ELSE <<>>
----------------------------------------------------------------------------
(* The serialisation of the keyframes                                      *)

JsonDone == arg.fn = "keyframes_to_json" /\ res # <<>>

\* C28: every serialised keyframe has exactly the fields beat, dancers, hands and
\* annotation; dancers maps each of the four agent ids to a record with exactly
\* x, y and facing; and every element of hands is a record with exactly the
\* fields a, hand_a, b and hand_b.
C28_WireSchema ==
    JsonDone =>
        \A k \in 1..Len(res[1]) :
            /\ DOMAIN res[1][k] = {"beat", "dancers", "hands", "annotation"}
            /\ DOMAIN res[1][k].dancers = DancerID
            /\ \A d \in DancerID : DOMAIN res[1][k].dancers[d] = {"x", "y", "facing"}
            /\ \A h \in 1..Len(res[1][k].hands) :
                   DOMAIN res[1][k].hands[h] = {"a", "hand_a", "b", "hand_b"}
----------------------------------------------------------------------------
(* The places of petronella                                                *)

\* petronella has run with four different participants
PetronellaDone ==
    /\ arg.fn = "figure" /\ res # <<>>
    /\ arg.call.name = "petronella"
    /\ Len(arg.participants) = 4
    /\ {arg.participants[k] : k \in 1..4} = DancerID

\* how far the dancer e stands to the right of the dancer d, who faces the centre
\* c of the ring: d looks along c - p, and the right of the direction (u, v) is
\* (v, -u)
ToTheRight(d, e, c) ==
    (arg.st.dancers[e].x - c[1]) * (c[2] - arg.st.dancers[d].y)
      - (arg.st.dancers[e].y - c[2]) * (c[1] - arg.st.dancers[d].x)

\* the ring-neighbour on the right of d
RightNeighbour(d) ==
    CHOOSE e \in DancerID \ {d} :
        \A o \in DancerID \ {d} :
            ToTheRight(d, e, Centroid(arg.st, arg.participants))
                >= ToTheRight(d, o, Centroid(arg.st, arg.participants))

\* C29: in petronella with four participants standing in a ring, each dancer ends
\* at the start position of the ring-neighbour on their right, as seen when facing
\* the centre of the ring, with the facing start facing + 270 modulo 360; the four
\* end positions are a cyclic shift of the start positions, no two the same.
C29_StepToTheRight ==
    PetronellaDone =>
        /\ \A d \in DancerID :
               /\ res[1].end_state.dancers[d].x = arg.st.dancers[RightNeighbour(d)].x
               /\ res[1].end_state.dancers[d].y = arg.st.dancers[RightNeighbour(d)].y
               /\ res[1].end_state.dancers[d].facing = (arg.st.dancers[d].facing + 2700) % 3600
        /\ \A d, e \in DancerID :
               d # e => <<res[1].end_state.dancers[d].x, res[1].end_state.dancers[d].y>>
                          # <<res[1].end_state.dancers[e].x, res[1].end_state.dancers[e].y>>
----------------------------------------------------------------------------
(* Properties of check_speed and check_spin                                *)

SweepDone == arg.fn \in {"check_speed", "check_spin"} /\ res # <<>>

\* the beat difference of the keyframes k - 1 and k
BeatStep(k) == arg.keyframes[k].beat - arg.keyframes[k - 1].beat

\* the agent d moves from keyframe k - 1 to keyframe k at more than 1.0 units per
\* beat: distance^2 > dt^2, with distances in 1/1000 and dt in 1/3000 beat (the
\* beats of the keyframes are whole thousandths of a beat)
TooFast(k, d) ==
    ((arg.keyframes[k].dancers[d].x - arg.keyframes[k - 1].dancers[d].x)
        * (arg.keyframes[k].dancers[d].x - arg.keyframes[k - 1].dancers[d].x)
      + (arg.keyframes[k].dancers[d].y - arg.keyframes[k - 1].dancers[d].y)
        * (arg.keyframes[k].dancers[d].y - arg.keyframes[k - 1].dancers[d].y))
       * 9
      > (BeatStep(k) \div 1000) * (BeatStep(k) \div 1000)

\* the shorter arc between the facings of d in the keyframes k - 1 and k
ShorterArc(k, d) ==
    IF (arg.keyframes[k].dancers[d].facing - arg.keyframes[k - 1].dancers[d].facing) % 3600
         > 1800
    THEN 3600 - ((arg.keyframes[k].dancers[d].facing
                    - arg.keyframes[k - 1].dancers[d].facing) % 3600)
    ELSE (arg.keyframes[k].dancers[d].facing - arg.keyframes[k - 1].dancers[d].facing) % 3600

\* the agent d turns from keyframe k - 1 to keyframe k at more than 180 degrees
\* per beat
TooFastTurn(k, d) == ShorterArc(k, d) * 5000 > 3 * BeatStep(k)

\* the pairs of consecutive keyframes that are to give a warning about d
PairsToWarn(d) ==
    {k \in 2..Len(arg.keyframes) :
        /\ BeatStep(k) > 0
        /\ IF arg.fn = "check_speed" THEN TooFast(k, d) ELSE TooFastTurn(k, d)}

\* C30: check_speed and check_spin compare only consecutive keyframes whose beat
\* difference is strictly positive: a pair with equal or decreasing beats gives no
\* warning, however far an agent's position or facing differs between the two,
\* and every pair with a positive difference gives one warning per agent whose
\* rate strictly exceeds the threshold (1.0 units per beat, 180 degrees per beat).
C30_PositiveStepsOnly ==
    SweepDone =>
        /\ \A d \in DancerID :
               Cardinality({i \in 1..Len(res[1]) : res[1][i][2] = d})
                   = Cardinality(PairsToWarn(d))
        /\ \A i \in 1..Len(res[1]) :
               /\ res[1][i][2] \in DancerID
               /\ res[1][i][3] = (IF arg.fn = "check_speed" THEN "moving" ELSE "spinning")
        /\ (\A k \in 2..Len(arg.keyframes) : BeatStep(k) <= 0) => res[1] = <<>>

\* a sweep over three keyframes: the first two have the same beat and up_lark 2
\* units and 180 degrees apart, the third follows a quarter of a beat later just
\* over the threshold; the only warning is about the last pair
C30_Witness ==
    /\ SweepDone
    /\ Len(arg.keyframes) = 3
    /\ BeatStep(2) = 0 /\ BeatStep(3) = 750000
    /\ arg.keyframes[1].dancers["up_lark"].x - arg.keyframes[2].dancers["up_lark"].x = 2000
    /\ arg.keyframes[2].dancers["up_lark"].x - arg.keyframes[3].dancers["up_lark"].x = -251
    /\ Len(res[1]) = 1

\* a pair of decreasing beats far apart gives no warning
C30_WitnessBackwards ==
    /\ SweepDone
    /\ Len(arg.keyframes) = 2
    /\ BeatStep(2) < 0
    /\ arg.keyframes[2].dancers["up_lark"].x - arg.keyframes[1].dancers["up_lark"].x = 2000
    /\ res[1] = <<>>
====
